---- MODULE Spec2Model ----
(***************************************************************************)
(* A model of the HTTP endpoint dispatcher of studiocontroller             *)
(* (HTTPServerSuite.py): the endpoint registry, the conversion of a        *)
(* query string or request body into handler arguments, the three request  *)
(* handlers do_GET, do_POST and do_DELETE, and the static-resource         *)
(* fallback of do_GET.                                                     *)
(*                                                                         *)
(* Strings the code inspects are sequences of tokens: a value is a         *)
(* sequence of characters, a path is a sequence of path tokens ("/", a     *)
(* name, a file extension).  A query string or body k1=v1&k2=v2 is the     *)
(* sequence of its <<key, value>> items.  Python values are tagged records *)
(* [kind, val].  What a handler does to the outside (a file lookup, the    *)
(* call of the target method, a status line, a write to the socket) is     *)
(* appended, in program order, to the effect log of the request.           *)
(***************************************************************************)
EXTENDS Integers, Sequences, FiniteSets, TLC

\* The request dispatcher.
VARIABLES
    pc,        \* "idle": waiting for a request; "done": a handler has returned
    command,   \* BaseHTTPRequestHandler.command of the request handled last
    target,    \* self.path as urlparse splits it: [path, query]
    headers,   \* the Content-Length header: [present, parses, length]
    rfile,     \* the request body, a sequence of <<key, value>> items
    log,       \* effects of the handler, in program order
    requestMappings,  \* the registry built for the request, as the handler leaves it
    addEndpoint_defaults  \* the default list objects of addEndpoint

\* A call of HTTPTools.mapURLQueryToFnArgs on its own.
VARIABLES
    query_components,      \* the argument: key -> list of raw values
    callerLists,           \* the list objects of the argument, as the caller sees them
    functionArgsDict       \* what the call returned or raised

\* The life of an HttpServerCreator: the server, its serving thread, the
\* thread stopServing starts, and the caller inside stopServing.
VARIABLES
    creatorArgs,       \* overrideParentObject and loggingMethod given to __init__ or not
    httpd,             \* how far __init__ is: "none", "created", "parentSet", "ready",
                       \* "serving" (it has returned), "failed" (it has raised)
    parentObject,      \* what setParentObjectInstance received: "none", "creator", "override"
    parentLogger,      \* whether setLoggingMethod was called
    httpdServerThread, \* "unstarted", "started", "polling", "terminated"
    shutdown_request,  \* BaseServer.__shutdown_request
    is_shut_down,      \* BaseServer.__is_shut_down, an Event
    shutdownThread,    \* the thread around httpd.shutdown: "none", "started", "waiting", "returned"
    requestThreads,    \* request threads the server has spawned and that still run
    stopPc,            \* the caller of stopServing: "idle", "joining", "joined", "returned", "raised"
    aliveAtCheck       \* what is_alive() answered in stopServing

\* A run of main of studiocontroller.py.
VARIABLES
    sys_argv,          \* sys.argv[1:], a sequence of [opt, arg]
    templateFile,      \* whether controllerDefinitions_template.json can be imported
    mainPc,            \* the step main is about to take, or "exited"
    configFileName,    \* main's local of that name
    httpServerAddr,    \* main's local of that name: <<address, port>>
    sharedObjects,     \* the shared bundle: key -> value
    exitStatus,        \* the argument of exit(), once main has called it
    stdout             \* what main has printed, in order

dispatchVars == <<pc, command, target, headers, rfile, log, requestMappings,
                  addEndpoint_defaults>>
coerceVars == <<query_components, callerLists, functionArgsDict>>
serverVars == <<creatorArgs, httpd, parentObject, parentLogger, httpdServerThread, shutdown_request,
                is_shut_down, shutdownThread, requestThreads, stopPc, aliveAtCheck>>

\* Request threads that dispatch side by side.
VARIABLES
    handlers           \* per request thread: [pc, request, conv, log] of its handler instance

concurrentVars == <<handlers>>

mainVars == <<sys_argv, templateFile, mainPc, configFileName, httpServerAddr, sharedObjects,
              exitStatus, stdout>>

\* Calls of SSHController.sendCommand and the threads they start.
VARIABLES
    sendArgs,          \* per call: what sendCommand was called with
    sendPc,            \* per call: the caller: "idle", "returned", "raised"
    sendReturned,      \* per call: what sendCommand returned, or the exception it raised
    runAsThread,       \* per call: the thread: [pc, output] of runAsThread
    callbacks          \* per call: the callbacks invoked so far, in order, as [name, arg]

sshVars == <<sendArgs, sendPc, sendReturned, runAsThread, callbacks>>

\* A ConfigFileManager, the file it saves and what a load of that file gives.
VARIABLES
    self_config,       \* ConfigFileManager.config of the object that saves
    configFile,        \* the file at path: [exists, text]
    importedConfig     \* what load returned or raised, once called

configVars == <<self_config, configFile, importedConfig>>

vars == <<dispatchVars, coerceVars, serverVars, mainVars, concurrentVars, sshVars, configVars>>

----------------------------------------------------------------------------
(* Bounds and alphabets of the requests that are explored.                 *)

MaxPairs == 2

Keys == {"x", "y", "o", "z"}

\* The <<key, value>> items a query string or body is made of.  x and y are
\* required keys of the endpoints below, o is an optional key, z is a key no
\* endpoint knows.  The values: "1", "no" and "-5" coerce to an int, a bool
\* and a float; a blank value; the superscript two (numeric, no decimal digit).
PayloadPairs ==
    { <<"x", <<"1">>>>, <<"x", <<>>>>, <<"x", <<"sup2">>>>,
      <<"y", <<"n", "o">>>>,
      <<"o", <<"-", "5">>>>,
      <<"z", <<"1">>>>, <<"z", <<>>>> }

RECURSIVE SeqsUpTo(_, _)
SeqsUpTo(S, n) ==
    IF n = 0 THEN { <<>> }
    ELSE LET shorter == SeqsUpTo(S, n - 1)
         IN  shorter \cup { Append(s, e) : s \in { t \in shorter : Len(t) = n - 1 }, e \in S }

Payloads == SeqsUpTo(PayloadPairs, MaxPairs)

\* Request paths as they arrive in the request line.
RequestPaths ==
    { <<>>, <<"/">>, <<"a">>, <<"/", "a">>, <<"/", "A">>, <<"/", "a", "/">>,
      <<"/", "j">>, <<"/", "k">>,
      <<"/", "f", ".html">>, <<"/", "f", ".jpeg">>, <<"/", "f", ".ico">>,
      <<"/", "f", ".txt">>, <<"/", ".html">>, <<"/", "d", ".ico", "/", "f">> }

----------------------------------------------------------------------------
(* Python values.                                                          *)

PyStr(s)   == [kind |-> "str",   val |-> s]
PyInt(n)   == [kind |-> "int",   val |-> n]
PyBool(b)  == [kind |-> "bool",  val |-> b]
PyFloat(f) == [kind |-> "float", val |-> f]
PyList(l)  == [kind |-> "list",  val |-> l]
PyBytes(b) == [kind |-> "bytes", val |-> b]
PyDict(d)  == [kind |-> "dict",  val |-> d]
Raised(e)  == [kind |-> "raise", val |-> e]

PyNone     == [kind |-> "none",   val |-> "None"]
PyTuple(l) == [kind |-> "tuple",  val |-> l]
PyObject(s) == [kind |-> "object", val |-> s]

\* A dict a target method returns: its items in insertion order, the keys
\* being values of any hashable type.
PyMap(items) == [kind |-> "dict", val |-> items]

\* Nested mappings a target method may return: JSON types under str keys; a
\* bytes and an object json does not know (say a datetime); an int key; a
\* tuple among the values; a tuple as key.
ReturnedMappings ==
    { PyMap(<< << PyStr("k"), PyMap(<< << PyStr("n"), PyInt(1) >>,
                                       << PyStr("l"), PyList(<< PyInt(2), PyStr("s") >>) >> >>) >>,
               << PyStr("z"), PyNone >> >>),
      PyMap(<< << PyStr("k"), PyMap(<< << PyStr("d"), PyObject("2021-01-01") >> >>) >>,
               << PyStr("r"), PyBytes("b") >> >>),
      PyMap(<< << PyInt(1), PyMap(<< << PyStr("n"), PyInt(1) >> >>) >> >>),
      PyMap(<< << PyStr("k"), PyMap(<< << PyStr("t"), PyTuple(<< PyInt(1), PyInt(2) >>) >> >>) >> >>),
      PyMap(<< << PyStr("k"), PyMap(<< << PyTuple(<< PyInt(1) >>), PyInt(1) >> >>) >> >>) }

\* What a target method may do: raise, or return a str, a bytes or a mapping.
HandlerOutcomes == { Raised("handler"), PyStr("s"), PyBytes("b") } \cup ReturnedMappings

----------------------------------------------------------------------------
(* HTTPTools.mapURLQueryToFnArgs: the coercion of the raw values.          *)

Digits == {"0", "1", "2", "3", "4", "5", "6", "7", "8", "9"}

\* str.isnumeric() also accepts numeric characters that are no decimal digit.
NumericChars == Digits \cup {"sup2"}

DigitVal(c) ==
    CASE c = "0" -> 0 [] c = "1" -> 1 [] c = "2" -> 2 [] c = "3" -> 3 [] c = "4" -> 4
      [] c = "5" -> 5 [] c = "6" -> 6 [] c = "7" -> 7 [] c = "8" -> 8 [] c = "9" -> 9

\* A variant that knows the lower-case spellings only.
TrueWords_lowerOnly == { <<"t","r","u","e">>, <<"y","e","s">> }

FalseWords == { <<"F","a","l","s","e">>, <<"f","a","l","s","e">>, <<"N","o">>, <<"n","o">> }
TrueWords  == { <<"T","r","u","e">>, <<"t","r","u","e">>, <<"Y","e","s">>, <<"y","e","s">> }

isnumeric(v) == Len(v) > 0 /\ \A i \in DOMAIN v : v[i] \in NumericChars

isdecimal(v) == Len(v) > 0 /\ \A i \in DOMAIN v : v[i] \in Digits

RECURSIVE IntOf(_)
IntOf(v) == IF v = <<>> THEN 0 ELSE 10 * IntOf(SubSeq(v, 1, Len(v) - 1)) + DigitVal(v[Len(v)])

\* A variant that refuses a leading zero.
int_noLeadingZero(v) ==
    IF isdecimal(v) /\ (Len(v) = 1 \/ v[1] # "0") THEN PyInt(IntOf(v))
    ELSE Raised("invalid literal for int()")

\* int(v) for a v that passed isnumeric(): the value, or ValueError.
int(v) == IF isdecimal(v) THEN PyInt(IntOf(v)) ELSE Raised("invalid literal for int()")

\* float(v) succeeds on [sign] digits [. digits] and [sign] . digits
\* (exponents, inf and nan are outside the value alphabet of the model).
Unsigned(v) == IF Len(v) > 0 /\ v[1] \in {"+", "-"} THEN Tail(v) ELSE v

IsFloatLiteral(v) ==
    LET u    == Unsigned(v)
        dots == { i \in DOMAIN u : u[i] = "." }
    IN  /\ \A i \in DOMAIN u : u[i] \in Digits \cup {"."}
        /\ Cardinality(dots) <= 1
        /\ \E i \in DOMAIN u : u[i] \in Digits

RECURSIVE Reduce(_, _)
Reduce(mant, scale) ==
    IF scale > 0 /\ mant % 10 = 0 THEN Reduce(mant \div 10, scale - 1)
    ELSE [mant |-> mant, scale |-> scale]

\* The float as sign, decimal mantissa and number of fraction digits.
float(v) ==
    LET u      == Unsigned(v)
        digits == SelectSeq(u, LAMBDA c : c \in Digits)
        dot    == IF \E i \in DOMAIN u : u[i] = "."
                  THEN CHOOSE i \in DOMAIN u : u[i] = "." ELSE Len(u) + 1
        r      == Reduce(IntOf(digits), IF dot > Len(u) THEN 0 ELSE Len(u) - dot)
    IN  PyFloat([neg |-> Len(v) > 0 /\ v[1] = "-", mant |-> r.mant, scale |-> r.scale])

\* str.lower() on the letters of the value alphabet.
lower(v) ==
    [i \in DOMAIN v |->
        CASE v[i] = "A" -> "a" [] v[i] = "E" -> "e" [] v[i] = "F" -> "f" [] v[i] = "L" -> "l"
          [] v[i] = "N" -> "n" [] v[i] = "O" -> "o" [] v[i] = "R" -> "r" [] v[i] = "S" -> "s"
          [] v[i] = "T" -> "t" [] v[i] = "U" -> "u" [] v[i] = "Y" -> "y"
          [] OTHER -> v[i]]

\* A variant that compares the words in any letter case.
CoerceItem_anyCase(v) ==
    IF lower(v) \in FalseWords THEN PyBool(FALSE)
    ELSE IF lower(v) \in TrueWords THEN PyBool(TRUE)
    ELSE IF isnumeric(v) THEN int(v)
    ELSE IF IsFloatLiteral(v) THEN float(v)
    ELSE PyStr(v)

\* One list item, lines 42-57.
CoerceItem(v) ==
    IF v \in FalseWords THEN PyBool(FALSE)
    ELSE IF v \in TrueWords THEN PyBool(TRUE)
    ELSE IF isnumeric(v) THEN int(v)
    ELSE IF IsFloatLiteral(v) THEN float(v)
    ELSE PyStr(v)

\* A variant that keeps the list of a single value.
mapURLQueryToFnArgs_keepLists(query_componentsDict) ==
    LET coerced == [key \in DOMAIN query_componentsDict |->
                        [i \in DOMAIN query_componentsDict[key] |->
                            CoerceItem(query_componentsDict[key][i])]]
        failed  == \E key \in DOMAIN coerced : \E i \in DOMAIN coerced[key] :
                        coerced[key][i].kind = "raise"
    IN  IF failed THEN Raised("mapURLQueryToFnArgs")
        ELSE PyDict([key \in DOMAIN coerced |-> PyList(coerced[key])])

\* The whole mapping: every item of every list is coerced, a list of one
\* item is replaced by the item.  An exception of int() leaves the function.
mapURLQueryToFnArgs(query_componentsDict) ==
    LET coerced == [key \in DOMAIN query_componentsDict |->
                        [i \in DOMAIN query_componentsDict[key] |->
                            CoerceItem(query_componentsDict[key][i])]]
        failed  == \E key \in DOMAIN coerced : \E i \in DOMAIN coerced[key] :
                        coerced[key][i].kind = "raise"
    IN  IF failed THEN Raised("mapURLQueryToFnArgs")
        ELSE PyDict([key \in DOMAIN coerced |->
                        IF Len(coerced[key]) = 1 THEN coerced[key][1]
                        ELSE PyList(coerced[key])])

\* urllib.parse.parse_qs with its defaults: items with a blank value are
\* dropped, the values of a repeated key accumulate in order.
parse_qs(qs) ==
    LET kept == SelectSeq(qs, LAMBDA item : item[2] # <<>>)
    IN  [key \in { kept[i][1] : i \in DOMAIN kept } |->
            LET mine == SelectSeq(kept, LAMBDA item : item[1] = key)
            IN  [i \in DOMAIN mine |-> mine[i][2]]]

----------------------------------------------------------------------------
(* The endpoint registry.                                                  *)

Range(f) == { f[i] : i \in DOMAIN f }

NoEndpoints == [path \in {} |-> {}]

\* HTTPRequestHandlerRTP.addEndpoint: the descriptor stored at targetDict[path].
addEndpoint(targetDict, path, targetMethod, methodArgs, requiredKeys, optionalKeys, contentType) ==
    [p \in DOMAIN targetDict \cup {path} |->
        IF p = path
        THEN [targetMethod |-> targetMethod, args |-> methodArgs, reqKeys |-> requiredKeys,
              optKeys |-> optionalKeys, contentType |-> contentType]
        ELSE targetDict[p]]

Preset(v) == [kind |-> "preset", val |-> v]

\* The endpoints a request handler class registers.  The dispatcher is generic
\* in them; these cover every content type, preset args, ordered required keys
\* and optional keys.  The "None" content type is addEndpoint's default.
Endpoints ==
    LET m0 == NoEndpoints
        m1 == addEndpoint(m0, <<>>, "renderIndexPage", <<>>, <<>>, <<>>, "text/html")
        m2 == addEndpoint(m1, <<"a">>, "methodA", <<Preset("p")>>, <<"y", "x">>, <<"o">>, "None")
        m3 == addEndpoint(m2, <<"a", "/">>, "methodT", <<>>, <<"x">>, <<>>, "text/plain")
        m4 == addEndpoint(m3, <<"j">>, "methodJ", <<Preset("p")>>, <<>>, <<"o">>, "application/json")
        m5 == addEndpoint(m4, <<"k">>, "methodK", <<>>, <<>>, <<>>, "application/python-pickle")
    IN  m5

\* addEndpoint's defaults for methodArgs, requiredKeys and optionalKeys are
\* three list objects made when the method is defined and shared by every
\* registration that omits the argument.
EmptyDefaults == [args |-> <<>>, reqKeys |-> <<>>, optKeys |-> <<>>]

\* The arguments the registrations above leave to the defaults.
OmittedArguments ==
    (<<>> :> {"args", "reqKeys", "optKeys"}) @@ (<<"a">> :> {})
        @@ (<<"a", "/">> :> {"args", "optKeys"}) @@ (<<"j">> :> {"reqKeys"})
        @@ (<<"k">> :> {"args", "reqKeys", "optKeys"})

\* list.__add__: x + y builds a new list and leaves x and y as they are.
\* A variant that extends x in place, as x += y does.
list_add_inPlace(x, y) == [new |-> x \o y, x |-> x \o y, y |-> y]

list_add(x, y) == [new |-> x \o y, x |-> x, y |-> y]

apiGETEndpoints    == Endpoints
apiPOSTEndpoints   == Endpoints
apiDELETEEndpoints == Endpoints

----------------------------------------------------------------------------
(* HTTPRequestHandlerRTP.convertKeysToMethodArgs and its helpers.          *)

\* HTTPTools.removeMultipleDictKeys: the dictionary after the removal.
removeMultipleDictKeys(dictToBeModified, keysToBeRemoved) ==
    [k \in DOMAIN dictToBeModified \ Range(keysToBeRemoved) |-> dictToBeModified[k]]

\* HTTPTools.extractWantedKeysFromDict
extractWantedKeysFromDict(sourceDict, wantedKeys) ==
    [k \in Range(wantedKeys) \cap DOMAIN sourceDict |-> sourceDict[k]]

\* A variant that reports the last missing key instead of the first.
FirstMissing_last(parsed, requiredArgKeysList) ==
    LET missing == { i \in DOMAIN requiredArgKeysList :
                        requiredArgKeysList[i] \notin DOMAIN parsed }
    IN  requiredArgKeysList[CHOOSE i \in missing : \A j \in missing : i >= j]

\* The list comprehension of line 432 raises KeyError at the first required
\* key, in declaration order, that the parsed mapping lacks.
FirstMissing(parsed, requiredArgKeysList) ==
    LET missing == { i \in DOMAIN requiredArgKeysList :
                        requiredArgKeysList[i] \notin DOMAIN parsed }
    IN  requiredArgKeysList[CHOOSE i \in missing : \A j \in missing : i <= j]

convertKeysToMethodArgs(rawKeysValuesString, requiredArgKeysList, optionalArgKeysList) ==
    LET post_data_dict == parse_qs(rawKeysValuesString)
        coerced        == mapURLQueryToFnArgs(post_data_dict)
        parsed         == coerced.val
        leftOver       == removeMultipleDictKeys(parsed,
                              requiredArgKeysList \o optionalArgKeysList)
    IN  IF coerced.kind = "raise" THEN
            Raised([what |-> "mapURLQueryToFnArgs", named |-> {},
                    printed |-> [none |-> <<>>]])
        ELSE IF \E i \in DOMAIN requiredArgKeysList :
                    requiredArgKeysList[i] \notin DOMAIN parsed THEN
            Raised([what |-> "mandatory keys missing",
                    named |-> { FirstMissing(parsed, requiredArgKeysList) },
                    printed |-> [mandatory |-> requiredArgKeysList]])
        ELSE IF DOMAIN leftOver # {} THEN
            Raised([what |-> "unexpected keys provided",
                    named |-> DOMAIN leftOver,
                    printed |-> [optional |-> optionalArgKeysList,
                                 mandatory |-> requiredArgKeysList]])
        ELSE [kind |-> "ok",
              args |-> [i \in DOMAIN requiredArgKeysList |-> parsed[requiredArgKeysList[i]]],
              kwargs |-> extractWantedKeysFromDict(parsed, optionalArgKeysList)]

----------------------------------------------------------------------------
(* Effects of a request handler.                                           *)

Err(what) == [what |-> what, named |-> {}, printed |-> [none |-> <<>>]]

\* fn(*args, **kwargs), with what the target method did: its return value
\* or Raised.
Call(fn, args, kwargs, outcome) ==
    [ev |-> "call", fn |-> fn, args |-> args, kwargs |-> kwargs, outcome |-> outcome]

\* HTTPRequestHandlerRTP._set_response: status line and Content-type header.
set_response(responseCode, contentType) ==
    [ev |-> "send_response", code |-> responseCode, contentType |-> contentType]

\* The except clause of the handlers: send_error(404, ...) with the name of
\* the method, self.path and the exception.
send_error(method, path, e) ==
    [ev |-> "send_error", code |-> 404, method |-> method, path |-> path, error |-> e]

Lookup(source, path, found) == [ev |-> source, path |-> path, found |-> found]

\* self.wfile.write(response) wants a bytes-like object and a live connection.
Writable(response) == response.enc # "none" \/ response.of.kind = "bytes"

Write(response, connLost) ==
    [ev |-> "write", response |-> response, ok |-> Writable(response) /\ ~connLost]

\* The statements after _set_response: the write and, when it raises, the
\* except clause.
writeResponse(method, path, response, connLost) ==
    IF Writable(response) /\ ~connLost THEN << Write(response, connLost) >>
    ELSE << Write(response, connLost),
            send_error(method, path,
                       IF Writable(response) THEN Err("connection")
                       ELSE Err("a bytes-like object is required")) >>

\* Lines 491-496 (and 619-624, 680-685), for a path that has a first character.
stripLeadingSlash(path) ==
    IF path[1] = "/" /\ Len(path) > 1 THEN Tail(path) ELSE <<>>

\* json.dumps(retVal, sort_keys=False, indent=4, default=str) as the JSON
\* document it writes.  A key must be a str, int, float, bool or None (an
\* int, bool or None key is written as its JSON text), default=str is
\* applied to values only; a list and a tuple are both written as an array.
JString(s) == [json |-> "string", val |-> s]
JNumber(n) == [json |-> "number", val |-> n]
JBoolean(b) == [json |-> "boolean", val |-> b]
JNull      == [json |-> "null", val |-> "null"]
JArray(a)  == [json |-> "array", val |-> a]
JObject(m) == [json |-> "object", val |-> m]

JsonKeyKinds == {"str", "int", "float", "bool", "none"}

\* str(v) of a value json does not know.
str(v) == IF v.kind = "bytes" THEN "b'" \o v.val \o "'" ELSE v.val

IntText(n) == CHOOSE c \in Digits : DigitVal(c) = n

KeyText(k) ==
    CASE k.kind = "str"  -> k.val
      [] k.kind = "int"  -> IntText(k.val)
      [] k.kind = "bool" -> IF k.val THEN "true" ELSE "false"
      [] k.kind = "none" -> "null"

\* A variant without default=str.
RECURSIVE Dumpable_noDefault(_)
Dumpable_noDefault(v) ==
    CASE v.kind \in {"list", "tuple"} -> \A i \in DOMAIN v.val : Dumpable_noDefault(v.val[i])
      [] v.kind = "dict" -> \A i \in DOMAIN v.val : /\ v.val[i][1].kind \in JsonKeyKinds
                                                    /\ Dumpable_noDefault(v.val[i][2])
      [] v.kind \in {"bytes", "object"} -> FALSE
      [] OTHER -> TRUE

\* json.dumps raises TypeError on a key of another type, at any depth.
RECURSIVE Dumpable(_)
Dumpable(v) ==
    CASE v.kind \in {"list", "tuple"} -> \A i \in DOMAIN v.val : Dumpable(v.val[i])
      [] v.kind = "dict" -> \A i \in DOMAIN v.val : /\ v.val[i][1].kind \in JsonKeyKinds
                                                    /\ Dumpable(v.val[i][2])
      [] OTHER -> TRUE

RECURSIVE Dump(_)
Dump(v) ==
    CASE v.kind = "str"  -> JString(v.val)
      [] v.kind = "int"  -> JNumber(v.val)
      [] v.kind = "bool" -> JBoolean(v.val)
      [] v.kind = "none" -> JNull
      [] v.kind \in {"list", "tuple"} -> JArray([i \in DOMAIN v.val |-> Dump(v.val[i])])
      [] v.kind = "dict" -> JObject([i \in DOMAIN v.val |->
                                        << KeyText(v.val[i][1]), Dump(v.val[i][2]) >>])
      [] OTHER -> JString(str(v))

json_dumps(retVal) ==
    IF Dumpable(retVal) THEN [kind |-> "json", val |-> Dump(retVal)]
    ELSE Raised(Err("keys must be str, int, float, bool or None"))

\* A variant that passes on what it cannot encode.
encodeResponse_lenient(contentType, retVal) ==
    IF contentType \in {"text/html", "text/plain", "application/json",
                        "application/python-pickle"} THEN
        [kind |-> "ok",
         response |-> IF contentType \in {"text/html", "text/plain"} /\ retVal.kind = "str"
                      THEN [enc |-> "utf-8", of |-> retVal]
                      ELSE [enc |-> "none", of |-> retVal],
         contentType |-> contentType]
    ELSE IF json_dumps(retVal).kind = "raise" THEN json_dumps(retVal)
    ELSE
        [kind |-> "ok", response |-> [enc |-> "json.dumps", of |-> json_dumps(retVal)],
         contentType |-> "application/json"]

\* Lines 523-569 of do_GET: the response and the Content-type of a return value.
encodeResponse(contentType, retVal) ==
    IF contentType \in {"text/html", "text/plain"} THEN
        IF retVal.kind = "str"
        THEN [kind |-> "ok", response |-> [enc |-> "utf-8", of |-> retVal],
              contentType |-> contentType]
        ELSE Raised(Err("object has no attribute encode"))
    ELSE IF contentType \in {"application/json", "application/python-pickle"} THEN
        [kind |-> "ok", response |-> [enc |-> "none", of |-> retVal],
         contentType |-> contentType]
    ELSE IF json_dumps(retVal).kind = "raise" THEN json_dumps(retVal)
    ELSE
        [kind |-> "ok", response |-> [enc |-> "json.dumps", of |-> json_dumps(retVal)],
         contentType |-> "application/json"]

\* HTTPRequestHandlerRTP.formatHttpResponseAsUTF8 of the report of do_POST
\* and do_DELETE.
formatHttpResponseAsUTF8(method, path, retVal) ==
    [enc |-> "utf-8", of |-> [kind |-> "report", method |-> method, path |-> path,
                              retVal |-> retVal]]

ExtensionTokens == {".html", ".jpeg", ".ico", ".txt"}

\* os.path.splitext(path)[1]: the extension of the last component, "" if none.
splitext(path) ==
    IF Len(path) >= 2 /\ path[Len(path)] \in ExtensionTokens /\ path[Len(path) - 1] # "/"
    THEN path[Len(path)] ELSE ""

\* HTTPRequestHandlerRTP.getMimetype
getMimetype(path) ==
    LET file_extension == splitext(path)
    IN  CASE file_extension = ".html" -> "text/html"
          [] file_extension = ".jpeg" -> "image/jpeg"
          [] file_extension = ".ico"  -> "image/x-icon"
          [] OTHER -> "text/html"

FileBytes(source, path) == [kind |-> "bytes", val |-> "file", source |-> source, path |-> path]

\* A variant that asks the file system before the archive.
staticResource_diskFirst(tgt, path, archiveHas, diskHas, connLost) ==
    IF diskHas THEN
        << Lookup("importFileFromDisk", path, TRUE),
           set_response(200, getMimetype(path)) >>
        \o writeResponse("do_GET", tgt,
                         [enc |-> "none", of |-> FileBytes("disk", path)], connLost)
    ELSE IF archiveHas THEN
        << Lookup("importFileFromDisk", path, FALSE),
           Lookup("retrieveFileFromArchive", path, TRUE),
           set_response(200, getMimetype(path)) >>
        \o writeResponse("do_GET", tgt,
                         [enc |-> "none", of |-> FileBytes("archive", path)], connLost)
    ELSE
        << Lookup("importFileFromDisk", path, FALSE),
           Lookup("retrieveFileFromArchive", path, FALSE),
           send_error("do_GET", tgt, Err("import failed")) >>

\* Lines 571-591 of do_GET: the archive first, then the file system.
staticResource(tgt, path, archiveHas, diskHas, connLost) ==
    IF archiveHas THEN
        << Lookup("retrieveFileFromArchive", path, TRUE),
           set_response(200, getMimetype(path)) >>
        \o writeResponse("do_GET", tgt,
                         [enc |-> "none", of |-> FileBytes("archive", path)], connLost)
    ELSE IF diskHas THEN
        << Lookup("retrieveFileFromArchive", path, FALSE),
           Lookup("importFileFromDisk", path, TRUE),
           set_response(200, getMimetype(path)) >>
        \o writeResponse("do_GET", tgt,
                         [enc |-> "none", of |-> FileBytes("disk", path)], connLost)
    ELSE
        << Lookup("retrieveFileFromArchive", path, FALSE),
           Lookup("importFileFromDisk", path, FALSE),
           send_error("do_GET", tgt, Err("import failed")) >>

\* Op applied to the value of v: v is evaluated once, as a statement of the
\* code is executed once, however often its result is read afterwards.
Once(v, Op(_)) == CHOOSE result \in { Op(x) : x \in {v} } : TRUE

\* do_GET: the effects of one GET request.  outcome is what the target
\* method does when called; archiveHas and diskHas say where the requested
\* file exists; connLost says whether the client has gone away.
GETEffects(tgt, outcome, archiveHas, diskHas, connLost) ==
    IF tgt.path = <<>> THEN << send_error("do_GET", tgt, Err("string index out of range")) >>
    ELSE
    LET getMappings == apiGETEndpoints
        path        == stripLeadingSlash(tgt.path)
    IN  IF path \in DOMAIN getMappings THEN
            LET d == getMappings[path]
            IN  Once(convertKeysToMethodArgs(tgt.query, d.reqKeys, d.optKeys),
                     LAMBDA conv :
                LET call == Call(d.targetMethod, d.args \o conv.args, conv.kwargs, outcome)
                    enc  == encodeResponse(d.contentType, outcome)
                IN  IF conv.kind = "raise" THEN << send_error("do_GET", tgt, conv.val) >>
                    ELSE IF outcome.kind = "raise" THEN
                        << call, send_error("do_GET", tgt, Err("handler")) >>
                    ELSE IF enc.kind = "raise" THEN
                        << call, send_error("do_GET", tgt, enc.val) >>
                    ELSE << call, set_response(200, enc.contentType) >>
                         \o writeResponse("do_GET", tgt, enc.response, connLost))
        ELSE staticResource(tgt, path, archiveHas, diskHas, connLost)

\* Lines 637-643: the body is read to the declared Content-Length, which is 0
\* when the header is absent or is no integer.
\* The length counts the items of the body; rfile.read returns what the
\* client sent when the declared length is beyond it.
content_length(hdrs) == IF hdrs.present /\ hdrs.parses THEN hdrs.length ELSE 0

rfile_read(body, n) == SubSeq(body, 1, IF n < Len(body) THEN n ELSE Len(body))

\* A variant that reads the whole body whatever the header says.
readBody_wholeBody(hdrs, body) == body

readBody(hdrs, body) == rfile_read(body, content_length(hdrs))

\* do_POST and do_DELETE: the two differ in the registry and in the name.
BodyEffects(method, mappings, tgt, hdrs, body, outcome, connLost) ==
    IF tgt.path = <<>> THEN << send_error(method, tgt, Err("string index out of range")) >>
    ELSE
    LET path == stripLeadingSlash(tgt.path)
    IN  IF path \in DOMAIN mappings THEN
            LET d == mappings[path]
            IN  Once(convertKeysToMethodArgs(readBody(hdrs, body), d.reqKeys, d.optKeys),
                     LAMBDA conv :
                LET call == Call(d.targetMethod, conv.args, conv.kwargs, outcome)
                IN  IF conv.kind = "raise" THEN << send_error(method, tgt, conv.val) >>
                    ELSE IF outcome.kind = "raise" THEN
                        << call, send_error(method, tgt, Err("handler")) >>
                    ELSE << call, set_response(200, "text/html") >>
                         \o writeResponse(method, tgt,
                                          formatHttpResponseAsUTF8(method, tgt, outcome),
                                          connLost))
        ELSE << send_error(method, tgt, Err("Unrecognised path")) >>

\* A variant of do_POST that falls back to the static resources as do_GET does.
POSTEffects_fallback(tgt, hdrs, body, outcome, connLost) ==
    IF tgt.path # <<>> /\ stripLeadingSlash(tgt.path) \notin DOMAIN apiPOSTEndpoints
    THEN staticResource(tgt, stripLeadingSlash(tgt.path), FALSE, FALSE, connLost)
    ELSE BodyEffects("do_POST", apiPOSTEndpoints, tgt, hdrs, body, outcome, connLost)

POSTEffects(tgt, hdrs, body, outcome, connLost) ==
    BodyEffects("do_POST", apiPOSTEndpoints, tgt, hdrs, body, outcome, connLost)

DELETEEffects(tgt, hdrs, body, outcome, connLost) ==
    BodyEffects("do_DELETE", apiDELETEEndpoints, tgt, hdrs, body, outcome, connLost)

\* The lists of a descriptor after the dispatch of a request to it.  The
\* dispatcher iterates requiredArgKeysList and optionalArgKeysList (lines
\* 432, 437), joins them for the removal of the expected keys (line 439)
\* and, in do_GET, joins the preset args and the required args (line 517).
descriptorAfter(method, d, conv) ==
    LET validated == conv.kind = "ok" \/ conv.val.what = "unexpected keys provided"
        expected  == IF validated THEN list_add(d.reqKeys, d.optKeys)
                     ELSE [new |-> <<>>, x |-> d.reqKeys, y |-> d.optKeys]
        args      == IF method = "do_GET" /\ conv.kind = "ok" THEN list_add(d.args, conv.args)
                     ELSE [new |-> <<>>, x |-> d.args, y |-> <<>>]
    IN  [d EXCEPT !.args = args.x, !.reqKeys = expected.x, !.optKeys = expected.y]

\* The registry a handler built for its request, as it is when the handler
\* returns; payload is the query string or the body that was read.
mappingsAfter(method, registry, tgt, payload) ==
    IF tgt.path # <<>> /\ stripLeadingSlash(tgt.path) \in DOMAIN registry THEN
        LET path == stripLeadingSlash(tgt.path)
            d    == registry[path]
        IN  [registry EXCEPT ![path] =
                Once(convertKeysToMethodArgs(payload, d.reqKeys, d.optKeys),
                     LAMBDA conv : descriptorAfter(method, d, conv))]
    ELSE registry

\* The default lists after the request: a list the routed registration left
\* to the default is that default object.
defaultsAfter(defaults, registry, tgt) ==
    IF tgt.path # <<>> /\ stripLeadingSlash(tgt.path) \in DOMAIN registry THEN
        LET path == stripLeadingSlash(tgt.path)
        IN  [field \in DOMAIN defaults |->
                IF field \in OmittedArguments[path] THEN registry[path][field]
                ELSE defaults[field]]
    ELSE defaults

----------------------------------------------------------------------------
(* The state machine: the server handles one request after the other.      *)

\* mapURLQueryToFnArgs has not been called.
NotCalled == [kind |-> "pending", val |-> <<>>]
NoLists == [key \in {} |-> <<>>]

CoerceOff ==
    /\ query_components = NoLists
    /\ callerLists = NoLists
    /\ functionArgsDict = NotCalled

\* No HttpServerCreator has been constructed.
ServerOff ==
    /\ creatorArgs = [overrideParentObject |-> FALSE, loggingMethod |-> FALSE]
    /\ httpd = "none"
    /\ parentObject = "none"
    /\ parentLogger = FALSE
    /\ httpdServerThread = "unstarted"
    /\ shutdown_request = FALSE
    /\ is_shut_down = FALSE
    /\ shutdownThread = "none"
    /\ requestThreads = 0
    /\ stopPc = "idle"
    /\ aliveAtCheck = FALSE

\* No request is being handled.
DispatchOff ==
    /\ pc = "idle"
    /\ command = "none"
    /\ target = [path |-> <<>>, query |-> <<>>]
    /\ headers = [present |-> FALSE, parses |-> FALSE, length |-> 0]
    /\ rfile = <<>>
    /\ log = <<>>
    /\ requestMappings = NoEndpoints
    /\ addEndpoint_defaults = EmptyDefaults

\* main has not been started.  get_ip() answers the address of the host.
httpServerDefaultPort == 10000
get_ip == "192.0.2.2"
EmptyDict == [key \in {} |-> PyNone]

MainOff ==
    /\ sys_argv = <<>>
    /\ templateFile = FALSE
    /\ mainPc = "off"
    /\ configFileName = PyNone
    /\ httpServerAddr = <<get_ip, httpServerDefaultPort>>
    /\ sharedObjects = EmptyDict
    /\ exitStatus = PyNone
    /\ stdout = <<>>

\* No request thread runs.  A handler instance and its locals exist per
\* request.
MaxHandlers == 2

NoRequest ==
    [command |-> "none", target |-> [path |-> <<>>, query |-> <<>>],
     headers |-> [present |-> FALSE, parses |-> FALSE, length |-> 0], rfile |-> <<>>,
     outcome |-> PyNone, archiveHas |-> FALSE, diskHas |-> FALSE, connLost |-> FALSE]

NotConverted == [kind |-> "pending", args |-> <<>>, kwargs |-> [key \in {} |-> PyNone]]

IdleHandler == [pc |-> "idle", request |-> NoRequest, conv |-> NotConverted, log |-> <<>>]

ConcurrentOff == handlers = [t \in 1..MaxHandlers |-> IdleHandler]

MaxSends == 2

NoArgs == [quoted |-> TRUE, onSuccess |-> "none", onFailure |-> "none"]

NoThread == [pc |-> "none", output |-> "pending"]

NotReturned == [kind |-> "pending", val |-> "nothing"]

SshOff ==
    /\ sendArgs = [c \in 1..MaxSends |-> NoArgs]
    /\ sendPc = [c \in 1..MaxSends |-> "idle"]
    /\ sendReturned = [c \in 1..MaxSends |-> NotReturned]
    /\ runAsThread = [c \in 1..MaxSends |-> NoThread]
    /\ callbacks = [c \in 1..MaxSends |-> <<>>]

NoFile == [exists |-> FALSE, text |-> <<>>]

NotLoaded == [kind |-> "pending", val |-> "not loaded"]

ConfigOff ==
    /\ self_config = <<>>
    /\ configFile = NoFile
    /\ importedConfig = NotLoaded

\* What the dispatcher leaves alone.
nonDispatchVars == <<coerceVars, serverVars, mainVars, concurrentVars, sshVars, configVars>>
NonDispatchOff == CoerceOff /\ ServerOff /\ MainOff /\ ConcurrentOff /\ SshOff /\ ConfigOff

NoTarget  == [path |-> <<>>, query |-> <<>>]
NoHeaders == [present |-> FALSE, parses |-> FALSE, length |-> 0]

\* No header, a header that is no integer, a header that declares a length.
ContentLengths ==
    { NoHeaders, [present |-> TRUE, parses |-> FALSE, length |-> 0] }
        \cup { [present |-> TRUE, parses |-> TRUE, length |-> n] : n \in 0..MaxPairs }

\* The paths of the requests with a body: do_POST and do_DELETE look at no
\* file, so one file path stands for all of them.
BodyRequestPaths ==
    { path \in RequestPaths : Len(path) <= 2 \/ path = <<"/", "f", ".html">> }

Init ==
    /\ pc = "idle"
    /\ command = "none"
    /\ target = NoTarget
    /\ headers = NoHeaders
    /\ rfile = <<>>
    /\ log = <<>>
    /\ requestMappings = NoEndpoints
    /\ addEndpoint_defaults = EmptyDefaults
    /\ NonDispatchOff

do_GET ==
    /\ pc = "idle"
    /\ \E path \in RequestPaths, query \in Payloads, outcome \in HandlerOutcomes,
          archiveHas \in BOOLEAN, diskHas \in BOOLEAN, connLost \in BOOLEAN :
            /\ target' = [path |-> path, query |-> query]
            /\ log' = GETEffects(target', outcome, archiveHas, diskHas, connLost)
            /\ requestMappings' = mappingsAfter("do_GET", apiGETEndpoints, target', query)
    /\ addEndpoint_defaults' = defaultsAfter(addEndpoint_defaults, requestMappings', target')
    /\ command' = "GET"
    /\ headers' = NoHeaders
    /\ rfile' = <<>>
    /\ pc' = "done"
    /\ UNCHANGED nonDispatchVars

do_POST ==
    /\ pc = "idle"
    /\ \E path \in BodyRequestPaths, hdrs \in ContentLengths, body \in Payloads,
          outcome \in HandlerOutcomes, connLost \in BOOLEAN :
            /\ target' = [path |-> path, query |-> <<>>]
            /\ headers' = hdrs
            /\ rfile' = body
            /\ log' = POSTEffects(target', hdrs, body, outcome, connLost)
            /\ requestMappings' = mappingsAfter("do_POST", apiPOSTEndpoints, target',
                                         readBody(hdrs, body))
    /\ addEndpoint_defaults' = defaultsAfter(addEndpoint_defaults, requestMappings', target')
    /\ command' = "POST"
    /\ pc' = "done"
    /\ UNCHANGED nonDispatchVars

do_DELETE ==
    /\ pc = "idle"
    /\ \E path \in BodyRequestPaths, hdrs \in ContentLengths, body \in Payloads,
          outcome \in HandlerOutcomes, connLost \in BOOLEAN :
            /\ target' = [path |-> path, query |-> <<>>]
            /\ headers' = hdrs
            /\ rfile' = body
            /\ log' = DELETEEffects(target', hdrs, body, outcome, connLost)
            /\ requestMappings' = mappingsAfter("do_DELETE", apiDELETEEndpoints, target',
                                         readBody(hdrs, body))
    /\ addEndpoint_defaults' = defaultsAfter(addEndpoint_defaults, requestMappings', target')
    /\ command' = "DELETE"
    /\ pc' = "done"
    /\ UNCHANGED nonDispatchVars

\* The handler has returned; the server waits for the next request.
finish ==
    /\ pc = "done"
    /\ pc' = "idle"
    /\ command' = "none"
    /\ target' = NoTarget
    /\ headers' = NoHeaders
    /\ rfile' = <<>>
    /\ log' = <<>>
    /\ requestMappings' = NoEndpoints
    /\ UNCHANGED addEndpoint_defaults
    /\ UNCHANGED nonDispatchVars

Next == do_GET \/ do_POST \/ do_DELETE \/ finish

Spec == Init /\ [][Next]_vars

----------------------------------------------------------------------------
(* Vocabulary of the properties: what a finished request was and did.      *)

Done == pc = "done"

\* The key/value payload of the request: the query string of a GET, the body
\* of a POST or DELETE as far as the Content-Length lets it be read.
Payload == IF command = "GET" THEN target.query
           ELSE IF headers.present /\ headers.parses
                THEN SubSeq(rfile, 1, IF headers.length < Len(rfile) THEN headers.length
                                      ELSE Len(rfile))
                ELSE <<>>

PayloadKeys == { Payload[i][1] : i \in DOMAIN Payload }

\* The keys that carry at least one value that is not blank.
ValuedKeys == { Payload[i][1] : i \in { j \in DOMAIN Payload : Payload[j][2] # <<>> } }

Registry == IF command = "GET" THEN apiGETEndpoints
            ELSE IF command = "POST" THEN apiPOSTEndpoints ELSE apiDELETEEndpoints

MethodName == IF command = "GET" THEN "do_GET"
              ELSE IF command = "POST" THEN "do_POST" ELSE "do_DELETE"

\* The lookup of the handler found an entry, and the entry it found.
Routed == target.path # <<>> /\ stripLeadingSlash(target.path) \in DOMAIN Registry
Missed == target.path # <<>> /\ stripLeadingSlash(target.path) \notin DOMAIN Registry
Desc   == Registry[stripLeadingSlash(target.path)]

Events(kinds) == SelectSeq(log, LAMBDA e : e.ev \in kinds)
Calls    == Events({"call"})
Statuses == Events({"send_response", "send_error"})
Writes   == Events({"write"})
Lookups  == Events({"retrieveFileFromArchive", "importFileFromDisk"})

\* The descriptor a called target method was registered with.
DescOf(fn) == CHOOSE d \in Range(Registry) : d.targetMethod = fn

----------------------------------------------------------------------------
(* C1 - C5: key validation, handler arguments, path lookup.                *)

\* C1: whenever a registered handler is invoked, every required key of its
\* descriptor is present in the request payload and every key of the payload
\* belongs to requiredKeys or optionalKeys.
\* Fails in the code: parse_qs drops an item whose value is blank before the
\* leftover check sees it, so GET /a?x=1&y=no&z= reaches the handler.
C1_HandlerOnlyWithPermittedKeys ==
    Done =>
        \A i \in DOMAIN Calls :
            LET d == DescOf(Calls[i].fn)
            IN  /\ Range(d.reqKeys) \subseteq PayloadKeys
                /\ PayloadKeys \subseteq Range(d.reqKeys) \cup Range(d.optKeys)

\* The required keys the payload gives no value to, and the one the
\* descriptor declares first among them.
MissingKeys(d) == Range(d.reqKeys) \ ValuedKeys

FirstMissingKey(d) ==
    d.reqKeys[CHOOSE i \in DOMAIN d.reqKeys :
                /\ d.reqKeys[i] \notin ValuedKeys
                /\ \A j \in 1..(i - 1) : d.reqKeys[j] \in ValuedKeys]

\* Every value of the payload coerces (int() raises on no value).
Coerces ==
    \A i \in DOMAIN Payload :
        (Payload[i][2] # <<>> /\ \A j \in DOMAIN Payload[i][2] : Payload[i][2][j] \in NumericChars)
            => \A j \in DOMAIN Payload[i][2] : Payload[i][2][j] \in Digits

\* C2 as claimed: the error of a request that omits required keys names every
\* required key that is absent.  The code names one key only.
C2_NamesEveryMissingKey ==
    (Done /\ Routed /\ Coerces /\ Range(Desc.reqKeys) \ PayloadKeys # {}) =>
        /\ Len(log) = 1
        /\ log[1].ev = "send_error"
        /\ log[1].error.what = "mandatory keys missing"
        /\ log[1].error.named = Range(Desc.reqKeys) \ PayloadKeys
        /\ log[1].error.printed = [mandatory |-> Desc.reqKeys]

\* C2 as amended: when the payload of a request to a registered endpoint gives
\* no value to one or more required keys, the target method is not called and
\* the request is answered 404; unless coercion itself raised, the error names
\* the first such key in the order of declaration and lists the mandatory keys.
C2_NamesFirstMissingKey ==
    (Done /\ Routed /\ MissingKeys(Desc) # {}) =>
        /\ Len(log) = 1
        /\ log[1].ev = "send_error"
        /\ log[1].code = 404
        /\ Coerces =>
            /\ log[1].error.what = "mandatory keys missing"
            /\ log[1].error.named = { FirstMissingKey(Desc) }
            /\ log[1].error.printed = [mandatory |-> Desc.reqKeys]

\* Two required keys are missing and the error names the first one.
C2_Witness ==
    /\ Done /\ Routed /\ Coerces
    /\ Cardinality(MissingKeys(Desc)) = 2
    /\ log[1].ev = "send_error"
    /\ log[1].error.named = { Desc.reqKeys[1] }

\* C3: a request that supplies all required keys plus a key that is neither
\* required nor optional fails with an error naming every such key and the
\* permitted optional and mandatory keys, and is answered 404.
\* Fails in the code for the reason of C1: a foreign key with a blank value
\* is dropped by parse_qs and the request is answered 200.
C3_ForeignKeyRejected ==
    LET foreign == PayloadKeys \ (Range(Desc.reqKeys) \cup Range(Desc.optKeys))
    IN  (Done /\ Routed /\ Range(Desc.reqKeys) \subseteq PayloadKeys /\ foreign # {}) =>
            /\ Len(log) = 1
            /\ log[1].ev = "send_error"
            /\ log[1].code = 404
            /\ log[1].error.what = "unexpected keys provided"
            /\ log[1].error.named = foreign
            /\ log[1].error.printed = [optional |-> Desc.optKeys, mandatory |-> Desc.reqKeys]

\* The coerced value of a key of the payload (a list if the key is repeated).
CoercedValue(key) == mapURLQueryToFnArgs(parse_qs(Payload)).val[key]

\* C4: the handler is called with the preset args followed by the coerced
\* values of the required keys in declaration order, and with exactly the
\* optional keys present in the payload as named arguments.
\* Fails in the code: do_POST and do_DELETE leave the preset args out.
C4_PresetThenRequiredThenOptional ==
    Done =>
        \A i \in DOMAIN Calls :
            LET d == DescOf(Calls[i].fn)
            IN  /\ Calls[i].args =
                      d.args \o [k \in DOMAIN d.reqKeys |-> CoercedValue(d.reqKeys[k])]
                /\ DOMAIN Calls[i].kwargs = Range(d.optKeys) \cap ValuedKeys
                /\ \A key \in DOMAIN Calls[i].kwargs :
                      Calls[i].kwargs[key] = CoercedValue(key)

\* The lookup key C5 describes: the path with one leading "/" removed and
\* nothing else altered.
ClaimedKey == IF target.path # <<>> /\ target.path[1] = "/" THEN Tail(target.path)
              ELSE target.path

\* The handler went on with a registry entry: it did not take the miss branch
\* (a file lookup, "Unrecognised path") and did not fail on the path itself.
Selected ==
    /\ log # <<>>
    /\ log[1].ev \notin {"retrieveFileFromArchive", "importFileFromDisk"}
    /\ log[1].ev = "send_error" =>
            log[1].error.what \notin {"Unrecognised path", "string index out of range"}

\* C5: for every request path the lookup key is the path with exactly one
\* leading "/" removed, and an endpoint is selected if and only if that key
\* equals a registered path, the endpoint registered under it.
\* Fails in the code: a path without a leading "/" is looked up as "" (the
\* root endpoint), and an empty path raises before the lookup.
C5_LookupKeyIsPathMinusOneSlash ==
    Done =>
        /\ Selected <=> ClaimedKey \in DOMAIN Registry
        /\ \A i \in DOMAIN Calls : Calls[i].fn = Registry[ClaimedKey].targetMethod

----------------------------------------------------------------------------
(* C6 - C10: registry miss, status codes, encoding, static resources.      *)

C6_WitnessGET ==
    /\ Done /\ Missed /\ command = "GET"
    /\ Len(log) = 3 /\ log[3].ev = "send_error"

\* The steps of a dispatch, judged on the request and on what the target
\* method did, not on the response.
UrlParsed == target.path # <<>>

KeysValid ==
    /\ Coerces
    /\ Range(Desc.reqKeys) \subseteq ValuedKeys
    /\ ValuedKeys \subseteq Range(Desc.reqKeys) \cup Range(Desc.optKeys)

HandlerReturned == Calls # <<>> /\ Calls[1].outcome.kind # "raise"
HandlerRaised   == Calls # <<>> /\ Calls[1].outcome.kind = "raise"

\* str.encode exists on a str only; do_POST and do_DELETE format any value.
Encodes ==
    /\ (command = "GET" /\ Desc.contentType \in {"text/html", "text/plain"})
            => Calls[1].outcome.kind = "str"
    /\ (command = "GET" /\ Desc.contentType = "None") => Dumpable(Calls[1].outcome)

DispatchSucceeded ==
    UrlParsed /\ Routed /\ KeysValid /\ HandlerReturned /\ Encodes

FileFound == \E i \in DOMAIN Lookups : Lookups[i].found

Sent200 == \E i \in DOMAIN Statuses : Statuses[i].code = 200

\* The request is answered by one 404 that names the method, the path and
\* the error.
Answered404(what) ==
    /\ Len(Statuses) = 1
    /\ Statuses[1].ev = "send_error"
    /\ Statuses[1].code = 404
    /\ Statuses[1].method = MethodName
    /\ Statuses[1].path = target
    /\ Statuses[1].error.what \in what

\* C7 as claimed: 200 is sent only if every dispatch step, path lookup
\* included, succeeded, and a request that fails at any step, a routing miss
\* included, is answered 404.  A GET that misses the registry and finds the
\* file is answered 200.
C7_Status200OnlyAfterEveryStep ==
    Done =>
        /\ Sent200 => DispatchSucceeded
        /\ ~DispatchSucceeded => Len(Statuses) = 1 /\ Statuses[1].code = 404

\* C7 as amended: 200 is sent only if every dispatch step succeeded or the
\* request is a GET that missed the registry and found the file; a request
\* that fails at a step (an unusable path, a routing miss that finds no file,
\* a coercion or key validation failure, an exception of the handler, an
\* encoding failure) is answered by one 404 that names the method, the path
\* and the originating error.
C7_Status200OnlyAfterEveryStepOrFile ==
    Done =>
        /\ Sent200 => DispatchSucceeded \/ (command = "GET" /\ Missed /\ FileFound)
        /\ ~UrlParsed => Answered404({"string index out of range"})
        /\ (Missed /\ ~FileFound) => Answered404({"Unrecognised path", "import failed"})
        /\ (Routed /\ ~KeysValid) =>
                /\ Calls = <<>>
                /\ Answered404({"mapURLQueryToFnArgs", "mandatory keys missing",
                                "unexpected keys provided"})
        /\ (Routed /\ HandlerRaised) => Answered404({"handler"})
        /\ (Routed /\ HandlerReturned /\ ~Encodes) =>
                Answered404({"object has no attribute encode",
                             "keys must be str, int, float, bool or None"})

\* The handler returned a value that text/html cannot encode, and the answer
\* is the 404 naming that.
C7_Witness ==
    /\ Done /\ Routed /\ KeysValid /\ HandlerReturned /\ ~Encodes
    /\ Len(log) = 2
    /\ log[2].ev = "send_error"
    /\ log[2].error.what = "object has no attribute encode"

\* C8: on a successful dispatch the body and the Content-Type follow the
\* content type of the descriptor: text/html and text/plain send the string
\* UTF-8 encoded under that type, application/json and the pass-through type
\* send the return value unchanged under that type, an unspecified type sends
\* the JSON encoding under application/json.
\* Fails in the code: do_POST and do_DELETE ignore the content type; they send
\* a report of the call as text/html.
C8_EncodingFollowsContentType ==
    (Done /\ Sent200 /\ Calls # <<>>) =>
        LET ct     == DescOf(Calls[1].fn).contentType
            retVal == Calls[1].outcome
        IN  /\ ct \in {"text/html", "text/plain"} =>
                /\ Statuses[1].contentType = ct
                /\ Writes[1].response = [enc |-> "utf-8", of |-> retVal]
            /\ ct \in {"application/json", "application/python-pickle"} =>
                /\ Statuses[1].contentType = ct
                /\ Writes[1].response = [enc |-> "none", of |-> retVal]
            /\ ct = "None" =>
                /\ Statuses[1].contentType = "application/json"
                /\ Writes[1].response = [enc |-> "json.dumps", of |-> json_dumps(retVal)]

\* What C9 compares of two runs: the calls with their arguments, the status
\* codes with their Content-Type, the encoding of the body.
SameDispatch(l1, l2) ==
    /\ Len(l1) = Len(l2)
    /\ \A i \in DOMAIN l1 :
        /\ l1[i].ev = l2[i].ev
        /\ l1[i].ev = "call" =>
            /\ l1[i].fn = l2[i].fn
            /\ l1[i].args = l2[i].args
            /\ l1[i].kwargs = l2[i].kwargs
        /\ l1[i].ev = "send_response" =>
            /\ l1[i].code = l2[i].code
            /\ l1[i].contentType = l2[i].contentType
        /\ l1[i].ev = "send_error" => l1[i].code = l2[i].code
        /\ l1[i].ev = "write" => l1[i].response.enc = l2[i].response.enc

\* C9: GET, POST and DELETE differ only in where the payload comes from: a
\* POST or DELETE calls the handler with the same arguments, preset args
\* included, and answers with the same status, Content-Type and body encoding
\* as a GET of the same path with the same payload.
\* Fails in the code: do_POST and do_DELETE pass no preset args and ignore
\* the content type.
C9_SameDispatchAsGET ==
    (Done /\ command \in {"POST", "DELETE"} /\ Routed) =>
        \E outcome \in HandlerOutcomes, connLost \in BOOLEAN :
            /\ Calls # <<>> => outcome = Calls[1].outcome
            /\ SameDispatch(log, GETEffects([path |-> target.path, query |-> Payload],
                                            outcome, FALSE, FALSE, connLost))

\* The Content-Type C10 expects of a file: by its extension, text/html when
\* the extension is not recognised.
HasExtension(path, ext) ==
    Len(path) >= 2 /\ path[Len(path)] = ext /\ path[Len(path) - 1] # "/"

ClaimedMimetype(path) ==
    IF HasExtension(path, ".jpeg") THEN "image/jpeg"
    ELSE IF HasExtension(path, ".ico") THEN "image/x-icon"
    ELSE "text/html"

ServesFile(from, source, path) ==
    /\ Len(log) >= from + 1
    /\ log[from] = set_response(200, ClaimedMimetype(path))
    /\ log[from + 1].ev = "write"
    /\ log[from + 1].response = [enc |-> "none", of |-> FileBytes(source, path)]
    /\ log[from + 1].ok => Len(log) = from + 1

----------------------------------------------------------------------------
(* HTTPTools.mapURLQueryToFnArgs called on its own: the argument is drawn  *)
(* from the mappings below, the one action calls the function.            *)

MaxValues == 2

\* Raw values: the eight boolean spellings, other letter cases of them,
\* digit strings, float literals, values no rule matches, the superscript
\* two, the empty string.
CoerceValues ==
    { <<"t","r","u","e">>, <<"T","r","u","e">>, <<"y","e","s">>, <<"Y","e","s">>,
      <<"f","a","l","s","e">>, <<"F","a","l","s","e">>, <<"n","o">>, <<"N","o">>,
      <<"T","R","U","E">>, <<"y","E","s">>, <<"F","A","L","S","E">>, <<"n","O">>,
      <<"1">>, <<"2">>, <<"4","2">>, <<"0","0","7">>,
      <<"3",".","1","4">>, <<"-","5">>,
      <<"a","b","c">>, <<"1",".","2",".","3">>, <<>>,
      <<"sup2">> }

\* The mappings: key a with up to MaxValues values or absent, key b with one
\* value or absent.  parse_qs builds the mapping in the order the keys first
\* appear; a dict is iterated in that order.
CoerceKeys == <<"a", "b">>

CoerceArguments ==
    { [key \in (IF la = <<>> THEN {} ELSE {"a"}) \cup (IF lb = <<>> THEN {} ELSE {"b"}) |->
            IF key = "a" THEN la ELSE lb] :
        la \in SeqsUpTo(CoerceValues, MaxValues),
        lb \in { <<>>, << <<"n","o">> >>, << <<"a","b","c">> >>, << <<"sup2">> >> } }

\* Lines 32-57: the copy of the mapping is shallow, the items are coerced in
\* the caller's lists, key after key and item after item, until int() raises.
RawLists(query_componentsDict) ==
    [key \in DOMAIN query_componentsDict |->
        [i \in DOMAIN query_componentsDict[key] |-> PyStr(query_componentsDict[key][i])]]

Position(key, i) ==
    (CHOOSE n \in DOMAIN CoerceKeys : CoerceKeys[n] = key) * (MaxValues + 2) + i

Raises(v) == CoerceItem(v).kind = "raise"

ListsAfterCall(query_componentsDict) ==
    LET failing == UNION { { Position(key, i) :
                                i \in { j \in DOMAIN query_componentsDict[key] :
                                            Raises(query_componentsDict[key][j]) } } :
                            key \in DOMAIN query_componentsDict }
        reached(key, i) == \A n \in failing : Position(key, i) < n
    IN  [key \in DOMAIN query_componentsDict |->
            [i \in DOMAIN query_componentsDict[key] |->
                IF reached(key, i) THEN CoerceItem(query_componentsDict[key][i])
                ELSE PyStr(query_componentsDict[key][i])]]

CoerceInit ==
    /\ query_components \in CoerceArguments
    /\ callerLists = RawLists(query_components)
    /\ functionArgsDict = NotCalled
    /\ DispatchOff
    /\ ServerOff
    /\ MainOff
    /\ ConcurrentOff
    /\ SshOff
    /\ ConfigOff

callMapURLQueryToFnArgs ==
    /\ functionArgsDict = NotCalled
    /\ functionArgsDict' = mapURLQueryToFnArgs(query_components)
    /\ callerLists' = ListsAfterCall(query_components)
    /\ UNCHANGED <<query_components, dispatchVars, serverVars, mainVars, concurrentVars,
                   sshVars, configVars>>

CoerceNext == callMapURLQueryToFnArgs

CoerceSpec == CoerceInit /\ [][CoerceNext]_vars

\* The call has returned a mapping / has ended either way.
Returned == functionArgsDict.kind = "dict"
Called == functionArgsDict # NotCalled

\* The keys of the argument that have one value.
SingleValued == { key \in DOMAIN query_components : Len(query_components[key]) = 1 }

----------------------------------------------------------------------------
(* C11 - C15: the coercion of the raw values.                              *)

\* The spellings C11 lists.
SpelledTrue  == { <<"t","r","u","e">>, <<"T","r","u","e">>, <<"y","e","s">>, <<"Y","e","s">> }
SpelledFalse == { <<"f","a","l","s","e">>, <<"F","a","l","s","e">>, <<"n","o">>, <<"N","o">> }

\* C11: for every key that has a single value, "true", "True", "yes" and
\* "Yes" coerce to boolean true and "false", "False", "no" and "No" to boolean
\* false: the mapping that is returned holds the boolean under the key, and a
\* mapping of such keys only is always returned.
C11_BooleanWordsCoerced ==
    Called =>
        /\ Returned =>
            \A key \in SingleValued :
                /\ query_components[key][1] \in SpelledTrue =>
                        functionArgsDict.val[key] = PyBool(TRUE)
                /\ query_components[key][1] \in SpelledFalse =>
                        functionArgsDict.val[key] = PyBool(FALSE)
        /\ (\A key \in DOMAIN query_components :
                /\ key \in SingleValued
                /\ query_components[key][1] \in SpelledTrue \cup SpelledFalse) => Returned

\* "Yes" under one key and "no" under another.
C11_Witness ==
    /\ Returned
    /\ DOMAIN query_components = {"a", "b"}
    /\ query_components["a"] = << <<"Y","e","s">> >>
    /\ query_components["b"] = << <<"n","o">> >>
    /\ functionArgsDict.val["a"] = PyBool(TRUE)
    /\ functionArgsDict.val["b"] = PyBool(FALSE)

\* The rules of C12 in their order: a boolean spelling, decimal digits only,
\* a float literal, anything else.
ClaimedItem(v) ==
    IF v \in SpelledFalse THEN PyBool(FALSE)
    ELSE IF v \in SpelledTrue THEN PyBool(TRUE)
    ELSE IF isdecimal(v) THEN PyInt(IntOf(v))
    ELSE IF IsFloatLiteral(v) THEN float(v)
    ELSE PyStr(v)

\* The coerced items of a key as the returned mapping holds them.
ItemsOf(key) ==
    IF Len(query_components[key]) = 1 THEN << functionArgsDict.val[key] >>
    ELSE functionArgsDict.val[key].val

\* C12: the first matching rule decides: decimal digits only become the
\* integer of that value, any other value that parses as a float becomes
\* that float, a value that matches no rule is left as the unchanged string.
\* Fails in the code: the superscript two matches no rule of the claim, but
\* passes str.isnumeric() and int() raises on it (the bug of C14).
C12_FirstMatchingRuleDecides ==
    Called =>
        /\ Returned
        /\ \A key \in DOMAIN query_components :
            \A i \in DOMAIN query_components[key] :
                ItemsOf(key)[i] = ClaimedItem(query_components[key][i])

\* No value of the argument is numeric without being decimal.
AllIntsDecimal ==
    \A key \in DOMAIN query_components :
        \A i \in DOMAIN query_components[key] :
            isnumeric(query_components[key][i]) => isdecimal(query_components[key][i])

\* C13: a key with exactly one value maps to the bare coerced scalar, a key
\* with n >= 2 values maps to the list of its n coerced values in their
\* order.  (The values are those parse_qs collected.)
C13_ScalarOrOrderedList ==
    Called =>
        /\ Returned =>
            \A key \in DOMAIN query_components :
                /\ Len(query_components[key]) = 1 =>
                        functionArgsDict.val[key] = ClaimedItem(query_components[key][1])
                /\ Len(query_components[key]) >= 2 =>
                        functionArgsDict.val[key] =
                            PyList([i \in DOMAIN query_components[key] |->
                                        ClaimedItem(query_components[key][i])])
        /\ AllIntsDecimal => Returned

\* a=1&a=2 yields [1, 2], next to a key with one value.
C13_Witness ==
    /\ Returned
    /\ DOMAIN query_components = {"a", "b"}
    /\ query_components["a"] = << <<"1">>, <<"2">> >>
    /\ functionArgsDict.val["a"] = PyList(<< PyInt(1), PyInt(2) >>)
    /\ functionArgsDict.val["b"] = PyStr(<<"a","b","c">>)

\* C14: coercion never raises: for every mapping of keys to lists of strings
\* a result is returned, and a value that fails the float parse stays a str.
\* Fails in the code: a value that passes str.isnumeric() is handed to int()
\* outside any try, and int() raises on numeric characters such as the
\* superscript two; the function re-raises.
C14_CoercionNeverRaises ==
    Called =>
        /\ Returned
        /\ \A key \in DOMAIN query_components :
            \A i \in DOMAIN query_components[key] :
                LET v == query_components[key][i]
                IN  (v \notin SpelledTrue \cup SpelledFalse /\ ~isnumeric(v) /\ ~IsFloatLiteral(v))
                        => ItemsOf(key)[i] = PyStr(v)

\* C15 as claimed: a value that spells false or no in any letter case becomes
\* boolean false, any letter case of true or yes becomes boolean true.
C15_BooleanAnyLetterCase ==
    (Called /\ Returned) =>
        \A key \in SingleValued :
            /\ lower(query_components[key][1]) \in { <<"t","r","u","e">>, <<"y","e","s">> } =>
                    functionArgsDict.val[key] = PyBool(TRUE)
            /\ lower(query_components[key][1]) \in { <<"f","a","l","s","e">>, <<"n","o">> } =>
                    functionArgsDict.val[key] = PyBool(FALSE)

\* C15 as amended: boolean coercion is case-sensitive.  Of the letter cases
\* of true, yes, false and no, exactly the spellings true, True, yes, Yes,
\* false, False, no and No become a boolean; every other letter case (TRUE,
\* yEs, FALSE, nO) is left as the unchanged string.
C15_BooleanListedSpellingsOnly ==
    (Called /\ Returned) =>
        \A key \in SingleValued :
            LET v == query_components[key][1]
            IN  /\ functionArgsDict.val[key].kind = "bool" <=> v \in SpelledTrue \cup SpelledFalse
                /\ (lower(v) \in SpelledTrue \cup SpelledFalse /\ v \notin SpelledTrue \cup SpelledFalse)
                        => functionArgsDict.val[key] = PyStr(v)

\* "TRUE" is returned as the string it was.
C15_Witness ==
    /\ Returned
    /\ "a" \in SingleValued
    /\ query_components["a"][1] = <<"T","R","U","E">>
    /\ functionArgsDict.val["a"] = PyStr(<<"T","R","U","E">>)

----------------------------------------------------------------------------
(* C16: the JSON body of an endpoint without content type.                 *)

\* json.loads of a JSON document: an object becomes a dict with str keys,
\* an array a list.
RECURSIVE json_loads(_)
json_loads(doc) ==
    CASE doc.json = "string"  -> PyStr(doc.val)
      [] doc.json = "number"  -> PyInt(doc.val)
      [] doc.json = "boolean" -> PyBool(doc.val)
      [] doc.json = "null"    -> PyNone
      [] doc.json = "array"   -> PyList([i \in DOMAIN doc.val |-> json_loads(doc.val[i])])
      [] doc.json = "object"  -> PyMap([i \in DOMAIN doc.val |->
                                          << PyStr(doc.val[i][1]), json_loads(doc.val[i][2]) >>])

\* The mapping C16 expects back: the returned mapping with the values of
\* non-JSON types replaced by their string form, nothing else changed.
RECURSIVE Stringified(_)
Stringified(v) ==
    CASE v.kind \in {"bytes", "object"} -> PyStr(str(v))
      [] v.kind = "list"  -> PyList([i \in DOMAIN v.val |-> Stringified(v.val[i])])
      [] v.kind = "tuple" -> PyTuple([i \in DOMAIN v.val |-> Stringified(v.val[i])])
      [] v.kind = "dict"  -> PyMap([i \in DOMAIN v.val |->
                                      << v.val[i][1], Stringified(v.val[i][2]) >>])
      [] OTHER -> v

\* What does come back: in addition a tuple has become a list and a key that
\* is an int, a bool or None has become its JSON text.
RECURSIVE Normalised(_)
Normalised(v) ==
    CASE v.kind \in {"bytes", "object"} -> PyStr(str(v))
      [] v.kind \in {"list", "tuple"} -> PyList([i \in DOMAIN v.val |-> Normalised(v.val[i])])
      [] v.kind = "dict"  -> PyMap([i \in DOMAIN v.val |->
                                      << PyStr(KeyText(v.val[i][1])), Normalised(v.val[i][2]) >>])
      [] OTHER -> v

\* Every key, at any depth, is of one of the kinds.
RECURSIVE AllKeys(_, _)
AllKeys(v, kinds) ==
    CASE v.kind \in {"list", "tuple"} -> \A i \in DOMAIN v.val : AllKeys(v.val[i], kinds)
      [] v.kind = "dict" -> \A i \in DOMAIN v.val : /\ v.val[i][1].kind \in kinds
                                                    /\ AllKeys(v.val[i][2], kinds)
      [] OTHER -> TRUE

RECURSIVE NoTuples(_)
NoTuples(v) ==
    CASE v.kind = "tuple" -> FALSE
      [] v.kind = "list" -> \A i \in DOMAIN v.val : NoTuples(v.val[i])
      [] v.kind = "dict" -> \A i \in DOMAIN v.val : NoTuples(v.val[i][2])
      [] OTHER -> TRUE

\* A GET of an endpoint registered without content type, whose target method
\* returned a nested mapping.
ReturnedMapping ==
    /\ Done /\ command = "GET" /\ Routed
    /\ Desc.contentType = "None"
    /\ HandlerReturned
    /\ Calls[1].outcome \in ReturnedMappings

\* C16 as claimed: the body is JSON which, parsed, is deeply equal to the
\* returned mapping except that values of non-JSON types appear as their
\* string form.  An int key comes back as a str, a tuple as a list, and a
\* mapping with a tuple as key has no JSON body at all.
C16_JsonRoundTrip ==
    ReturnedMapping =>
        /\ Sent200
        /\ Writes # <<>>
        /\ Writes[1].response.enc = "json.dumps"
        /\ json_loads(Writes[1].response.of.val) = Stringified(Calls[1].outcome)

\* C16 as amended: if every key of the mapping, at any depth, is a str, an
\* int, a float, a bool or None, the body is JSON under application/json
\* which, parsed, is the returned mapping with every value of a non-JSON type
\* as its string form, every tuple as a list and every key as its JSON text;
\* it is deeply equal to the returned mapping, values of non-JSON types as
\* strings, when all keys are strings and no value is a tuple.  A key of
\* another type fails the encoding: the request is answered 404.
C16_JsonRoundTripOfStrKeys ==
    ReturnedMapping =>
        LET retVal == Calls[1].outcome
        IN  /\ AllKeys(retVal, {"str", "int", "float", "bool", "none"}) =>
                /\ Sent200
                /\ Statuses[1].contentType = "application/json"
                /\ Writes # <<>>
                /\ Writes[1].response.enc = "json.dumps"
                /\ json_loads(Writes[1].response.of.val) = Normalised(retVal)
                /\ (AllKeys(retVal, {"str"}) /\ NoTuples(retVal)) =>
                        json_loads(Writes[1].response.of.val) = Stringified(retVal)
            /\ ~AllKeys(retVal, {"str", "int", "float", "bool", "none"}) =>
                /\ Writes = <<>>
                /\ Answered404({"keys must be str, int, float, bool or None"})

\* The mapping holds a bytes and an object; they come back as strings.
C16_Witness ==
    /\ ReturnedMapping
    /\ AllKeys(Calls[1].outcome, {"str"}) /\ NoTuples(Calls[1].outcome)
    /\ Stringified(Calls[1].outcome) # Calls[1].outcome
    /\ Writes # <<>> /\ Writes[1].ok
    /\ json_loads(Writes[1].response.of.val) = Stringified(Calls[1].outcome)

----------------------------------------------------------------------------
(* HttpServerCreator: construction, the serving thread (serve_forever of   *)
(* socketserver.BaseServer), the request threads of ThreadingHTTPServer,   *)
(* and stopServing.  Time is not modelled: the join of stopServing may     *)
(* time out whenever the serving thread has not terminated.                *)

MaxRequestThreads == 2

ServerInit ==
    ServerOff /\ DispatchOff /\ CoerceOff /\ MainOff /\ ConcurrentOff /\ SshOff /\ ConfigOff

\* HttpServerCreator.__init__ in its steps.  The server is created and
\* bound, with parentObject None; or the creation raises (the port is
\* taken) and __init__ re-raises.
HttpServerCreator_init_create ==
    /\ httpd = "none"
    /\ \E bound \in BOOLEAN, overrideParentObject \in BOOLEAN, loggingMethod \in BOOLEAN :
        /\ creatorArgs' = [overrideParentObject |-> overrideParentObject,
                           loggingMethod |-> loggingMethod]
        /\ httpd' = IF bound THEN "created" ELSE "failed"
    /\ parentObject' = "none"
    /\ UNCHANGED <<parentLogger, httpdServerThread, shutdown_request, is_shut_down,
                   shutdownThread, requestThreads, stopPc, aliveAtCheck, dispatchVars,
                   coerceVars, mainVars, concurrentVars,
                   sshVars, configVars>>

\* setParentObjectInstance(self) or setParentObjectInstance(overrideParentObject)
HttpServerCreator_init_setParentObjectInstance ==
    /\ httpd = "created"
    /\ httpd' = "parentSet"
    /\ parentObject' = IF creatorArgs.overrideParentObject THEN "override" ELSE "creator"
    /\ UNCHANGED <<creatorArgs, parentLogger, httpdServerThread, shutdown_request,
                   is_shut_down, shutdownThread, requestThreads, stopPc, aliveAtCheck,
                   dispatchVars, coerceVars, mainVars, concurrentVars,
                   sshVars, configVars>>

\* setLoggingMethod(loggingMethod) if one was given.
HttpServerCreator_init_setLoggingMethod ==
    /\ httpd = "parentSet"
    /\ httpd' = "ready"
    /\ parentLogger' = creatorArgs.loggingMethod
    /\ UNCHANGED <<creatorArgs, parentObject, httpdServerThread, shutdown_request,
                   is_shut_down, shutdownThread, requestThreads, stopPc, aliveAtCheck,
                   dispatchVars, coerceVars, mainVars, concurrentVars,
                   sshVars, configVars>>

\* A variant that starts the serving thread as soon as the server exists.
HttpServerCreator_init_startThread_early ==
    /\ httpd = "created"
    /\ httpdServerThread = "unstarted"
    /\ httpdServerThread' = "started"
    /\ UNCHANGED <<creatorArgs, httpd, parentObject, parentLogger, shutdown_request,
                   is_shut_down, shutdownThread, requestThreads, stopPc, aliveAtCheck,
                   dispatchVars, coerceVars, mainVars, concurrentVars,
                   sshVars, configVars>>

\* The serving thread is created and started; __init__ returns.
HttpServerCreator_init_startThread ==
    /\ httpd = "ready"
    /\ httpd' = "serving"
    /\ httpdServerThread' = "started"
    /\ UNCHANGED <<creatorArgs, parentObject, parentLogger, shutdown_request,
                   is_shut_down, shutdownThread, requestThreads, stopPc, aliveAtCheck,
                   dispatchVars, coerceVars, mainVars, concurrentVars,
                   sshVars, configVars>>

\* serve_forever begins: __is_shut_down.clear().
serve_forever_enter ==
    /\ httpdServerThread = "started"
    /\ httpdServerThread' = "polling"
    /\ is_shut_down' = FALSE
    /\ UNCHANGED <<creatorArgs, httpd, parentObject, parentLogger, shutdown_request, shutdownThread,
                   requestThreads, stopPc, aliveAtCheck, dispatchVars, coerceVars, mainVars, concurrentVars,
                   sshVars, configVars>>

\* A turn of the loop with a connection ready: process_request starts a
\* thread for it.
serve_forever_request ==
    /\ httpdServerThread = "polling"
    /\ ~shutdown_request
    /\ requestThreads < MaxRequestThreads
    /\ requestThreads' = requestThreads + 1
    /\ UNCHANGED <<creatorArgs, httpd, parentObject, parentLogger, httpdServerThread, shutdown_request,
                   is_shut_down, shutdownThread, stopPc, aliveAtCheck, dispatchVars, coerceVars, mainVars, concurrentVars,
                   sshVars, configVars>>

\* A request thread has handled its request.
requestThread_finish ==
    /\ requestThreads > 0
    /\ requestThreads' = requestThreads - 1
    /\ UNCHANGED <<creatorArgs, httpd, parentObject, parentLogger, httpdServerThread, shutdown_request,
                   is_shut_down, shutdownThread, stopPc, aliveAtCheck, dispatchVars, coerceVars, mainVars, concurrentVars,
                   sshVars, configVars>>

\* The loop sees __shutdown_request; the finally clause resets it and sets
\* __is_shut_down; the thread ends.
serve_forever_exit ==
    /\ httpdServerThread = "polling"
    /\ shutdown_request
    /\ httpdServerThread' = "terminated"
    /\ shutdown_request' = FALSE
    /\ is_shut_down' = TRUE
    /\ UNCHANGED <<creatorArgs, httpd, parentObject, parentLogger, shutdownThread, requestThreads, stopPc,
                   aliveAtCheck, dispatchVars, coerceVars, mainVars, concurrentVars,
                   sshVars, configVars>>

\* stopServing, up to the join: the thread around httpd.shutdown is started.
stopServing_start ==
    /\ httpd = "serving"
    /\ stopPc = "idle"
    /\ shutdownThread' = "started"
    /\ stopPc' = "joining"
    /\ UNCHANGED <<creatorArgs, httpd, parentObject, parentLogger, httpdServerThread, shutdown_request,
                   is_shut_down, requestThreads, aliveAtCheck, dispatchVars, coerceVars, mainVars, concurrentVars,
                   sshVars, configVars>>

\* BaseServer.shutdown in its thread: __shutdown_request = True, then the
\* wait for __is_shut_down.
shutdown_request_set ==
    /\ shutdownThread = "started"
    /\ shutdown_request' = TRUE
    /\ shutdownThread' = "waiting"
    /\ UNCHANGED <<creatorArgs, httpd, parentObject, parentLogger, httpdServerThread, is_shut_down,
                   requestThreads, stopPc, aliveAtCheck, dispatchVars, coerceVars, mainVars, concurrentVars,
                   sshVars, configVars>>

shutdown_return ==
    /\ shutdownThread = "waiting"
    /\ is_shut_down
    /\ shutdownThread' = "returned"
    /\ UNCHANGED <<creatorArgs, httpd, parentObject, parentLogger, httpdServerThread, shutdown_request,
                   is_shut_down, requestThreads, stopPc, aliveAtCheck, dispatchVars, coerceVars, mainVars, concurrentVars,
                   sshVars, configVars>>

\* httpdServerThread.join(timeout=2) returns: the thread has ended, or the
\* two seconds are over.
stopServing_join ==
    /\ stopPc = "joining"
    /\ stopPc' = "joined"
    /\ UNCHANGED <<creatorArgs, httpd, parentObject, parentLogger, httpdServerThread, shutdown_request,
                   is_shut_down, shutdownThread, requestThreads, aliveAtCheck, dispatchVars,
                   coerceVars, mainVars, concurrentVars,
                   sshVars, configVars>>

\* A variant of the end of stopServing that does not look at the thread.
stopServing_isAlive_unchecked ==
    /\ stopPc = "joined"
    /\ aliveAtCheck' = (httpdServerThread # "terminated")
    /\ stopPc' = "returned"
    /\ UNCHANGED <<creatorArgs, httpd, parentObject, parentLogger, httpdServerThread, shutdown_request,
                   is_shut_down, shutdownThread, requestThreads, dispatchVars, coerceVars, mainVars, concurrentVars,
                   sshVars, configVars>>

\* if self.httpdServerThread.is_alive(): raise Exception("Failed to stop")
stopServing_isAlive ==
    /\ stopPc = "joined"
    /\ aliveAtCheck' = (httpdServerThread # "terminated")
    /\ stopPc' = IF httpdServerThread # "terminated" THEN "raised" ELSE "returned"
    /\ UNCHANGED <<creatorArgs, httpd, parentObject, parentLogger, httpdServerThread, shutdown_request,
                   is_shut_down, shutdownThread, requestThreads, dispatchVars, coerceVars, mainVars, concurrentVars,
                   sshVars, configVars>>

ServerNext ==
    \/ HttpServerCreator_init_create
    \/ HttpServerCreator_init_setParentObjectInstance
    \/ HttpServerCreator_init_setLoggingMethod
    \/ HttpServerCreator_init_startThread
    \/ serve_forever_enter
    \/ serve_forever_request
    \/ requestThread_finish
    \/ serve_forever_exit
    \/ stopServing_start
    \/ shutdown_request_set
    \/ shutdown_return
    \/ stopServing_join
    \/ stopServing_isAlive

ServerSpec == ServerInit /\ [][ServerNext]_vars

----------------------------------------------------------------------------
(* C17: stopServing.                                                       *)

\* C17: stopServing requests the shutdown of the server from a separate
\* thread and then waits a bounded time for the serving thread: if it
\* returns normally the serving thread has terminated, and if the serving
\* thread is still alive when the wait has ended (where stopServing looks:
\* is_alive() after the join) it raises instead of returning.
C17_StopServingReturnsOnlyWhenStopped ==
    /\ stopPc # "idle" => shutdownThread # "none"
    /\ shutdown_request => shutdownThread \in {"waiting", "returned"}
    /\ stopPc = "returned" => httpdServerThread = "terminated"
    /\ stopPc = "raised" => aliveAtCheck
    /\ (stopPc \in {"returned", "raised"} /\ aliveAtCheck) => stopPc = "raised"

\* The wait has ended with the serving thread still polling, the shutdown
\* thread waits for it, request threads still run: stopServing has raised.
C17_Witness ==
    /\ stopPc = "raised"
    /\ httpdServerThread = "polling"
    /\ shutdownThread = "waiting"
    /\ requestThreads > 0

\* The other end: stopServing has returned after the serving thread ended.
C17_WitnessReturned ==
    /\ stopPc = "returned"
    /\ httpdServerThread = "terminated"
    /\ shutdownThread = "returned"

----------------------------------------------------------------------------
(* main of studiocontroller.py, from the parsing of the command line to    *)
(* the loading of the configuration file.  The interpreter is recent       *)
(* enough for testPythonVersion.  The file system is fixed: the paths a -c *)
(* option can name are a JSON object, a JSON array, a text that is no      *)
(* JSON, a directory, and a path with nothing behind it.                   *)

MaxArgs == 2

FileSystem ==
    ("cfg.json" :> "object") @@ ("list.json" :> "array") @@ ("broken.json" :> "text")
        @@ ("adir" :> "directory")

ConfigPaths == DOMAIN FileSystem \cup {"nofile.json"}

\* checkers.is_on_filesystem
is_on_filesystem(path) == path \in DOMAIN FileSystem

\* Arguments of -p: a port, or an address, a colon and a port.
PublicHttpArgs ==
    { <<"8", "0", "8", "0">>, <<"8", "0">>, <<"7", "0", "0", "0", "0">>, <<"a", "b", "c">>,
      <<"10.0.0.1", ":", "8", "0", "8", "0">>, <<"10.0.0.1", ":", "8", "0">>,
      <<"bad", ":", "8", "0", "8", "0">>, <<"10.0.0.1", ":", "a", "b", "c">> }

\* validators.ip_address accepts them.
IpAddresses == { <<"10.0.0.1">> }

\* The switches getopt is seeded with, and one it does not know.
getoptSwitches == {"-c", "-h", "-p", "-g", "-i"}

MainOptions ==
    { [opt |-> "-c", arg |-> path] : path \in ConfigPaths }
        \cup { [opt |-> "-p", arg |-> a] : a \in PublicHttpArgs }
        \cup { [opt |-> o, arg |-> <<>>] : o \in {"-h", "-g", "-i", "-x"} }

\* str.split(sep)
RECURSIVE split(_, _)
split(v, sep) ==
    IF \A i \in DOMAIN v : v[i] # sep THEN << v >>
    ELSE LET i == CHOOSE k \in DOMAIN v : v[k] = sep /\ \A j \in 1..(k - 1) : v[j] # sep
         IN  << SubSeq(v, 1, i - 1) >> \o split(SubSeq(v, i + 1, Len(v)), sep)

\* validators.integer(value, minimum=1024, maximum=65535)
validPort(n) == n >= 1024 /\ n <= 65535

\* The -p branch of main: the new httpServerAddr, or the exception.
publicHttp(arg, addr) ==
    LET parts == split(arg, ":")
    IN  IF Len(parts) = 2 THEN
            LET ipPort == int(parts[2])
            IN  IF ipPort.kind = "raise" THEN ipPort
                ELSE IF parts[1] \notin IpAddresses THEN
                    Raised("-p Invalid Public HTTP server address:port combination supplied")
                ELSE IF ~validPort(ipPort.val) THEN
                    Raised("-p Invalid Public HTTP server address:port combination supplied")
                ELSE [kind |-> "ok", val |-> << parts[1][1], ipPort.val >>]
        ELSE
            LET port == int(arg)
            IN  IF port.kind = "raise" \/ ~validPort(port.val) THEN
                    Raised("-p Invalid Public HTTP port supplied")
                ELSE [kind |-> "ok", val |-> << addr[1], port.val >>]

\* A line main prints: its fixed text and the exception it quotes.
Printed(text, e) == [text |-> text, e |-> e]

\* The loop of main over the options getopt returned.  st holds main's
\* locals and what it printed; the loop ends with the options, with the
\* first exception, or with the exit(0) of -g.
RECURSIVE iterateOptions(_, _, _)
iterateOptions(opts, st, template) ==
    IF opts = <<>> THEN st
    ELSE
        LET o == Head(opts)
        IN  CASE o.opt = "-c" ->
                    IF is_on_filesystem(o.arg) THEN
                        iterateOptions(Tail(opts),
                                       [st EXCEPT !.configFileName = PyStr(o.arg)], template)
                    ELSE [st EXCEPT !.outcome = Raised("Supplied config-file doesn't exist")]
              [] o.opt = "-g" ->
                    IF template THEN
                        [st EXCEPT !.outcome = [kind |-> "exit", val |-> 0],
                                   !.stdout = Append(@, Printed("Generated a template configuration file", ""))]
                    ELSE [st EXCEPT !.outcome = Raised("Failed to generate dummy config file")]
              [] o.opt = "-p" ->
                    LET addr == publicHttp(o.arg, st.httpServerAddr)
                    IN  IF addr.kind = "raise" THEN [st EXCEPT !.outcome = addr]
                        ELSE iterateOptions(Tail(opts),
                                 [st EXCEPT !.httpServerAddr = addr.val,
                                            !.stdout = Append(@, Printed("User specified Public HTTP server listen addr", ""))],
                                 template)
              [] OTHER -> iterateOptions(Tail(opts), st, template)

\* ConfigFileManager.load(path) of a manager created without initial keys:
\* the decoded content, or the exception of open, of decode, or of the
\* check of the keys.
ConfigFileManager_load(path) ==
    CASE FileSystem[path] = "directory" -> Raised("ConfigFileManager.load() Is a directory")
      [] FileSystem[path] = "text"      -> Raised("ConfigFileManager.load() decode()")
      [] FileSystem[path] = "array"     -> Raised("ConfigFileManager.load() checkAllKeysArePresent()")
      [] FileSystem[path] = "object"    -> PyDict(path)

\* The attribute config of an object: a ConfigFileManager has one, a dict
\* has none.
getattr_config(object) ==
    IF object.kind = "ConfigFileManager" THEN object.val
    ELSE Raised("'dict' object has no attribute 'config'")

MainInit ==
    /\ sys_argv \in SeqsUpTo(MainOptions, MaxArgs)
    /\ templateFile \in BOOLEAN
    /\ mainPc = "parseArgs"
    /\ configFileName = PyNone
    /\ httpServerAddr = <<get_ip, httpServerDefaultPort>>
    /\ sharedObjects = EmptyDict
    /\ exitStatus = PyNone
    /\ stdout = <<>>
    /\ DispatchOff
    /\ CoerceOff
    /\ ServerOff
    /\ ConcurrentOff
    /\ SshOff
    /\ ConfigOff

\* exit(status)
exit(status) ==
    /\ mainPc' = "exited"
    /\ exitStatus' = PyInt(status)

\* main from the check of the argument count to the end of the option loop.
main_parseArgs ==
    /\ mainPc = "parseArgs"
    /\ IF Len(sys_argv) = 0 THEN
            /\ stdout' = Append(stdout, Printed("ERR: ** No parameters supplied **", ""))
            /\ exit(1)
            /\ UNCHANGED <<configFileName, httpServerAddr, sharedObjects>>
       ELSE IF sys_argv[1].opt = "-h" THEN
            /\ stdout' = Append(stdout, Printed("helpText", ""))
            /\ exit(0)
            /\ UNCHANGED <<configFileName, httpServerAddr, sharedObjects>>
       ELSE
            /\ sharedObjects' = ("pyzArchiveName" :> PyStr("studiocontroller.py")) @@ sharedObjects
            /\ IF \E i \in DOMAIN sys_argv : sys_argv[i].opt \notin getoptSwitches THEN
                    /\ stdout' = Append(stdout, Printed("Error parsing args", "option not recognized"))
                    /\ exit(1)
                    /\ UNCHANGED <<configFileName, httpServerAddr>>
               ELSE
                    LET st == iterateOptions(sys_argv,
                                  [configFileName |-> configFileName,
                                   httpServerAddr |-> httpServerAddr,
                                   stdout |-> stdout,
                                   outcome |-> [kind |-> "parsed", val |-> 0]],
                                  templateFile)
                    IN  /\ configFileName' = st.configFileName
                        /\ httpServerAddr' = st.httpServerAddr
                        /\ CASE st.outcome.kind = "raise" ->
                                    /\ stdout' = Append(st.stdout,
                                                        Printed("Error parsing args", st.outcome.val))
                                    /\ exit(1)
                             [] st.outcome.kind = "exit" ->
                                    /\ stdout' = st.stdout
                                    /\ exit(st.outcome.val)
                             [] OTHER ->
                                    /\ stdout' = st.stdout
                                    /\ mainPc' = "requireConfig"
                                    /\ UNCHANGED exitStatus
    /\ UNCHANGED <<sys_argv, templateFile, dispatchVars, coerceVars, serverVars, concurrentVars,
                   sshVars, configVars>>

\* main refuses to go on without a configuration file.
main_requireConfigFile ==
    /\ mainPc = "requireConfig"
    /\ IF configFileName = PyNone THEN
            /\ stdout' = Append(stdout,
                   Printed("Error: studiocontroller started without a config file.", ""))
            /\ exit(1)
       ELSE
            /\ mainPc' = "loadConfig"
            /\ UNCHANGED <<stdout, exitStatus>>
    /\ UNCHANGED <<sys_argv, templateFile, configFileName, httpServerAddr, sharedObjects,
                   dispatchVars, coerceVars, serverVars, concurrentVars,
                   sshVars, configVars>>

\* main's import of the configuration file: config is rebound to what load
\* returns, and the attribute config of that value is copied into the
\* bundle; any exception of the two is printed and main exits.
main_loadConfig ==
    /\ mainPc = "loadConfig"
    /\ LET config == ConfigFileManager_load(configFileName.val)
           controllerDefinitions ==
               IF config.kind = "raise" THEN config ELSE getattr_config(config)
       IN  IF controllerDefinitions.kind = "raise" THEN
                /\ stdout' = Append(stdout, Printed("Failed to import config file",
                                                    controllerDefinitions.val))
                /\ exit(1)
                /\ UNCHANGED sharedObjects
           ELSE
                /\ sharedObjects' =
                       ("controllerDefinitions" :> controllerDefinitions) @@ sharedObjects
                /\ mainPc' = "registerSignals"
                /\ UNCHANGED <<stdout, exitStatus>>
    /\ UNCHANGED <<sys_argv, templateFile, configFileName, httpServerAddr,
                   dispatchVars, coerceVars, serverVars, concurrentVars,
                   sshVars, configVars>>

MainNext ==
    \/ main_parseArgs
    \/ main_requireConfigFile
    \/ main_loadConfig

MainSpec == MainInit /\ [][MainNext]_vars

\* main never gets past the import of the configuration file: the
\* registration of the signal handlers, the start of the HTTP server and
\* the wait loop are never executed.
main_StopsAtConfigStep == mainPc # "registerSignals"

\* main exited in the except clause of the import of the configuration file.
ExitedAtConfigStep ==
    /\ mainPc = "exited"
    /\ stdout # <<>>
    /\ stdout[Len(stdout)].text = "Failed to import config file"

\* C20: when -c names an existing file whose content decodes, main stores
\* the loaded configuration as controllerDefinitions in the shared bundle
\* and goes on towards the start of the HTTP server; main exits with
\* status 1 at the config step only when loading the file fails.
C20_ConfigStoredAndMainGoesOn ==
    /\ (/\ mainPc = "registerSignals" \/ ExitedAtConfigStep
        /\ ConfigFileManager_load(configFileName.val).kind = "dict")
            => /\ mainPc = "registerSignals"
               /\ "controllerDefinitions" \in DOMAIN sharedObjects
               /\ sharedObjects["controllerDefinitions"].kind = "dict"
    /\ ExitedAtConfigStep
            => /\ exitStatus = PyInt(1)
               /\ ConfigFileManager_load(configFileName.val).kind = "raise"

\* main was started with -c cfg.json, the file was loaded, and main exited.
C20_Exercised ==
    /\ ExitedAtConfigStep
    /\ configFileName = PyStr("cfg.json")
    /\ ConfigFileManager_load("cfg.json").kind = "dict"

----------------------------------------------------------------------------
(* C21 - C22: the statuses of one request, and the Content-Length header.  *)

\* C21: a request produces at most one response status: once the 200 status
\* line and headers have been sent, no 404 is sent for the same request.
\* Fails in the code: the write after _set_response is inside the try, so a
\* response that is no bytes (GET /j returning a str under application/json)
\* or a lost connection leads to send_error(404) after the 200.
C21_AtMostOneStatus ==
    Done =>
        /\ Len(Statuses) <= 1
        /\ Sent200 => \A i \in DOMAIN Statuses : Statuses[i].code # 404

\* A GET whose 200 and headers went out, whose write raised on a str, with
\* the connection alive, and the 404 that followed.
C21_Exercised ==
    /\ Done /\ command = "GET" /\ Routed
    /\ Len(Statuses) = 2
    /\ Statuses[1].code = 200 /\ Statuses[2].code = 404
    /\ Statuses[2].error.what = "a bytes-like object is required"

\* The header is absent or is no integer.
NoUsableLength == ~headers.present \/ ~headers.parses

\* The body as far as the declared length reaches.
DeclaredBody ==
    IF NoUsableLength THEN <<>>
    ELSE [i \in { j \in DOMAIN rfile : j <= headers.length } |-> rfile[i]]

\* C22: for POST and DELETE on a registered path the payload is the body
\* read to the declared Content-Length; without a usable header the payload
\* is empty and the dispatch goes on to the key validation: the request is
\* answered by what the validation of the payload says (for an empty
\* payload: the first required key is missing, or the method is called
\* without arguments), never by an error about the header.
C22_BodyReadToContentLength ==
    (Done /\ command \in {"POST", "DELETE"} /\ Routed) =>
        LET conv == convertKeysToMethodArgs(DeclaredBody, Desc.reqKeys, Desc.optKeys)
        IN  /\ conv.kind = "raise" => log = << send_error(MethodName, target, conv.val) >>
            /\ conv.kind = "ok" =>
                    /\ Len(Calls) = 1
                    /\ Calls[1].args = conv.args
                    /\ Calls[1].kwargs = conv.kwargs
            /\ NoUsableLength =>
                    IF Desc.reqKeys # <<>> THEN
                        /\ Answered404({"mandatory keys missing"})
                        /\ Statuses[1].error.named = { Desc.reqKeys[1] }
                    ELSE
                        /\ Len(Calls) = 1
                        /\ Calls[1].args = <<>>
                        /\ DOMAIN Calls[1].kwargs = {}

\* A POST that carries both required keys in its body and no Content-Length:
\* the body is not read and the key validation answers.
C22_Witness ==
    /\ Done /\ command = "POST" /\ Routed
    /\ ~headers.present
    /\ Range(Desc.reqKeys) # {}
    /\ Range(Desc.reqKeys) \subseteq { rfile[i][1] : i \in DOMAIN rfile }
    /\ Calls = <<>>
    /\ Answered404({"mandatory keys missing"})

\* A DELETE whose header declares less than the body holds: the handler is
\* called on the part that was read.
C22_WitnessShortLength ==
    /\ Done /\ command = "DELETE" /\ Routed
    /\ headers.present /\ headers.parses /\ headers.length = 1 /\ Len(rfile) = 2
    /\ Len(Calls) = 1

----------------------------------------------------------------------------
(* C23: leading zeros and signs.                                           *)

LeadingZero(v) == Len(v) > 1 /\ v[1] = "0" /\ \A i \in DOMAIN v : v[i] \in Digits

Signed(v) ==
    /\ Len(v) > 1
    /\ v[1] \in {"+", "-"}
    /\ \A i \in 2..Len(v) : v[i] \in Digits

\* C23 as claimed: a numeric string with a leading zero or with a sign is not
\* coerced to an integer; it is coerced to a float.  "007" passes the
\* digits-only test and becomes the integer 7.
C23_LeadingZeroAndSignedBecomeFloat ==
    Returned =>
        \A key \in DOMAIN query_components :
            \A i \in DOMAIN query_components[key] :
                (LeadingZero(query_components[key][i]) \/ Signed(query_components[key][i]))
                    => ItemsOf(key)[i].kind = "float"

\* C23 as amended: a signed string of decimal digits fails the digits-only
\* test and is coerced to the float of its value; a string of decimal digits
\* with a leading zero passes the test and is coerced to the integer of its
\* value.  A mapping of such values only is always returned.
C23_SignedBecomesFloatLeadingZeroInt ==
    /\ Returned =>
        \A key \in DOMAIN query_components :
            \A i \in DOMAIN query_components[key] :
                LET v == query_components[key][i]
                IN  /\ Signed(v) =>
                            ItemsOf(key)[i] = PyFloat([neg |-> v[1] = "-",
                                                       mant |-> IntOf(Tail(v)),
                                                       scale |-> 0])
                    /\ LeadingZero(v) => ItemsOf(key)[i] = PyInt(IntOf(v))
    /\ (/\ Called
        /\ \A key \in DOMAIN query_components :
            \A i \in DOMAIN query_components[key] :
                LeadingZero(query_components[key][i]) \/ Signed(query_components[key][i]))
            => Returned

\* "007" and "-5" under one key: the list of the integer 7 and the float -5.
C23_Witness ==
    /\ Returned
    /\ DOMAIN query_components = {"a"}
    /\ query_components["a"] = << <<"0", "0", "7">>, <<"-", "5">> >>
    /\ functionArgsDict.val["a"] =
            PyList(<< PyInt(7), PyFloat([neg |-> TRUE, mant |-> 5, scale |-> 0]) >>)

----------------------------------------------------------------------------
(* C24: the descriptors are not modified by the dispatch.                  *)

\* The three lists of every descriptor of a registry.
ListsOf(registry) ==
    [path \in DOMAIN registry |->
        [args |-> registry[path].args, reqKeys |-> registry[path].reqKeys,
         optKeys |-> registry[path].optKeys]]

\* C24: dispatching a request never modifies an endpoint descriptor: after
\* any sequence of GET, POST and DELETE requests the preset-args,
\* required-keys and optional-keys lists of the registry the handler built,
\* and the default lists shared by all addEndpoint calls, have the contents
\* they were registered with.
C24_DescriptorListsUnchanged ==
    /\ Done => ListsOf(requestMappings) = ListsOf(Registry)
    /\ addEndpoint_defaults = EmptyDefaults

\* A GET to the endpoint that leaves its preset args to the default list and
\* has a required key: the method was called with the value of the key, and
\* the default list is still empty.
C24_Witness ==
    /\ Done /\ command = "GET" /\ Routed
    /\ "args" \in OmittedArguments[stripLeadingSlash(target.path)]
    /\ Desc.reqKeys # <<>>
    /\ Len(Calls) = 1 /\ Calls[1].args # <<>>
    /\ requestMappings[stripLeadingSlash(target.path)].args = <<>>
    /\ addEndpoint_defaults.args = <<>>

----------------------------------------------------------------------------
(* C26: the parent object is set before the serving thread exists.         *)

\* C26: HttpServerCreator starts the serving thread only after setting the
\* parent object (itself, or overrideParentObject when one is given) and,
\* when supplied, the logging method; no request is handled while
\* parentObject is still None.
C26_ParentObjectSetBeforeServing ==
    /\ httpdServerThread # "unstarted" =>
            /\ parentObject = IF creatorArgs.overrideParentObject THEN "override"
                              ELSE "creator"
            /\ creatorArgs.loggingMethod => parentLogger
    /\ requestThreads > 0 => parentObject # "none"

\* A request thread runs on a server that was given an overrideParentObject
\* and a logging method.
C26_Witness ==
    /\ requestThreads > 0
    /\ creatorArgs.overrideParentObject /\ creatorArgs.loggingMethod
    /\ parentObject = "override"
    /\ parentLogger

----------------------------------------------------------------------------
(* Request threads side by side.  ThreadingHTTPServer starts a thread per  *)
(* connection and a handler instance per request; the locals of do_GET,    *)
(* do_POST and do_DELETE, the registry the handler builds and the mapping  *)
(* parse_qs returns belong to that instance.  What the instances share are *)
(* the default lists of addEndpoint, which a descriptor refers to when the *)
(* registration omitted the argument.  A handler proceeds in steps, and    *)
(* the steps of the threads interleave.                                    *)

Request(method, path, query, hdrs, body, outcome, archiveHas, connLost) ==
    [command |-> method, target |-> [path |-> path, query |-> query], headers |-> hdrs,
     rfile |-> body, outcome |-> outcome, archiveHas |-> archiveHas, diskHas |-> FALSE,
     connLost |-> connLost]

Declared(n) == [present |-> TRUE, parses |-> TRUE, length |-> n]

\* The requests that meet: to one endpoint with different payloads, to an
\* endpoint that leaves its lists to the defaults, with a missing key, with
\* a handler that raises, with a response that cannot be written, with a
\* body, for a file.
ConcurrentRequests ==
    LET x1 == <<"x", <<"1">>>>
        yn == <<"y", <<"n", "o">>>>
        o5 == <<"o", <<"-", "5">>>>
    IN  { Request("GET", <<"/", "a">>, <<x1, yn>>, NoHeaders, <<>>, PyStr("s"), FALSE, FALSE),
          Request("GET", <<"/", "a">>, <<yn, o5, x1>>, NoHeaders, <<>>, PyBytes("b"), FALSE, FALSE),
          Request("GET", <<"/", "a">>, <<x1>>, NoHeaders, <<>>, PyStr("s"), FALSE, FALSE),
          Request("GET", <<"/", "a", "/">>, <<x1>>, NoHeaders, <<>>, PyStr("s"), FALSE, FALSE),
          Request("GET", <<"/", "a", "/">>, <<x1>>, NoHeaders, <<>>, Raised("handler"), FALSE, FALSE),
          Request("GET", <<"/", "j">>, <<o5>>, NoHeaders, <<>>, PyStr("s"), FALSE, FALSE),
          Request("GET", <<"/", "f", ".html">>, <<>>, NoHeaders, <<>>, PyStr("s"), TRUE, FALSE),
          Request("POST", <<"/", "a">>, <<>>, Declared(2), <<yn, x1>>, PyStr("s"), FALSE, FALSE),
          Request("POST", <<"/", "a">>, <<>>, NoHeaders, <<yn, x1>>, PyStr("s"), FALSE, TRUE),
          Request("DELETE", <<"/", "a", "/">>, <<>>, Declared(1), <<x1, yn>>, PyStr("s"), FALSE, FALSE) }

methodOf(r) == IF r.command = "GET" THEN "do_GET"
               ELSE IF r.command = "POST" THEN "do_POST" ELSE "do_DELETE"

registryOf(r) == IF r.command = "GET" THEN apiGETEndpoints
                 ELSE IF r.command = "POST" THEN apiPOSTEndpoints ELSE apiDELETEEndpoints

payloadOf(r) == IF r.command = "GET" THEN r.target.query ELSE readBody(r.headers, r.rfile)

\* A list of the descriptor at path, read now: the default list object when
\* the registration omitted the argument.
listOf(r, path, field) ==
    IF field \in OmittedArguments[path] THEN addEndpoint_defaults[field]
    ELSE registryOf(r)[path][field]

ConcurrentInit ==
    /\ ConcurrentOff
    /\ DispatchOff
    /\ CoerceOff
    /\ ServerOff
    /\ MainOff
    /\ SshOff
    /\ ConfigOff

othersUnchanged ==
    UNCHANGED <<pc, command, target, headers, rfile, log, requestMappings, coerceVars,
                serverVars, mainVars, sshVars, configVars>>

\* A connection is accepted: a thread and a handler instance for it.
handle_receive(t) ==
    /\ handlers[t].pc = "idle"
    /\ \E r \in ConcurrentRequests :
        handlers' = [handlers EXCEPT ![t] = [IdleHandler EXCEPT !.pc = "routing",
                                                                !.request = r]]
    /\ UNCHANGED addEndpoint_defaults
    /\ othersUnchanged

\* urlparse, the leading slash, the lookup in the registry just built; on a
\* miss the static resource (GET) or the error (POST, DELETE).
handle_route(t) ==
    /\ handlers[t].pc = "routing"
    /\ LET r    == handlers[t].request
           path == stripLeadingSlash(r.target.path)
       IN  handlers' = [handlers EXCEPT ![t] =
                IF r.target.path = <<>> THEN
                    [@ EXCEPT !.pc = "done",
                              !.log = << send_error(methodOf(r), r.target,
                                                    Err("string index out of range")) >>]
                ELSE IF path \in DOMAIN registryOf(r) THEN [@ EXCEPT !.pc = "converting"]
                ELSE IF r.command = "GET" THEN
                    [@ EXCEPT !.pc = "done",
                              !.log = staticResource(r.target, path, r.archiveHas, r.diskHas,
                                                     r.connLost)]
                ELSE
                    [@ EXCEPT !.pc = "done",
                              !.log = << send_error(methodOf(r), r.target,
                                                    Err("Unrecognised path")) >>]]
    /\ UNCHANGED addEndpoint_defaults
    /\ othersUnchanged

\* A variant that keeps the parsed arguments where every handler instance
\* sees them.
handle_convert_shared(t) ==
    /\ handlers[t].pc = "converting"
    /\ LET r    == handlers[t].request
           path == stripLeadingSlash(r.target.path)
           conv == convertKeysToMethodArgs(payloadOf(r), listOf(r, path, "reqKeys"),
                                           listOf(r, path, "optKeys"))
       IN  handlers' = [u \in DOMAIN handlers |->
                IF u = t THEN
                    IF conv.kind = "raise" THEN
                        [handlers[t] EXCEPT !.pc = "done",
                             !.log = << send_error(methodOf(r), r.target, conv.val) >>]
                    ELSE [handlers[t] EXCEPT !.pc = "calling",
                             !.conv = [kind |-> "ok", args |-> conv.args, kwargs |-> conv.kwargs]]
                ELSE IF conv.kind = "ok" /\ handlers[u].pc = "calling" THEN
                    [handlers[u] EXCEPT
                         !.conv = [kind |-> "ok", args |-> conv.args, kwargs |-> conv.kwargs]]
                ELSE handlers[u]]
    /\ UNCHANGED addEndpoint_defaults
    /\ othersUnchanged

\* convertKeysToMethodArgs on the payload, with the key lists as they are
\* now; the join of line 439 leaves them as list_add says.
handle_convert(t) ==
    /\ handlers[t].pc = "converting"
    /\ LET r         == handlers[t].request
           path      == stripLeadingSlash(r.target.path)
           reqKeys   == listOf(r, path, "reqKeys")
           optKeys   == listOf(r, path, "optKeys")
           conv      == convertKeysToMethodArgs(payloadOf(r), reqKeys, optKeys)
           validated == conv.kind = "ok" \/ conv.val.what = "unexpected keys provided"
           expected  == IF validated THEN list_add(reqKeys, optKeys)
                        ELSE [new |-> <<>>, x |-> reqKeys, y |-> optKeys]
       IN  /\ handlers' = [handlers EXCEPT ![t] =
                IF conv.kind = "raise" THEN
                    [@ EXCEPT !.pc = "done",
                              !.log = << send_error(methodOf(r), r.target, conv.val) >>]
                ELSE [@ EXCEPT !.pc = "calling",
                               !.conv = [kind |-> "ok", args |-> conv.args,
                                         kwargs |-> conv.kwargs]]]
           /\ addEndpoint_defaults' =
                [addEndpoint_defaults EXCEPT
                    !.reqKeys = IF "reqKeys" \in OmittedArguments[path] THEN expected.x ELSE @,
                    !.optKeys = IF "optKeys" \in OmittedArguments[path] THEN expected.y ELSE @]
    /\ othersUnchanged

\* The call of the target method: do_GET joins the preset args, as they are
\* now, and the required args; do_POST and do_DELETE pass the required args.
handle_call(t) ==
    /\ handlers[t].pc = "calling"
    /\ LET r      == handlers[t].request
           path   == stripLeadingSlash(r.target.path)
           conv   == handlers[t].conv
           preset == listOf(r, path, "args")
           joined == IF r.command = "GET" THEN list_add(preset, conv.args)
                     ELSE [new |-> conv.args, x |-> preset, y |-> conv.args]
           call   == Call(registryOf(r)[path].targetMethod, joined.new, conv.kwargs, r.outcome)
       IN  /\ handlers' = [handlers EXCEPT ![t] =
                IF r.outcome.kind = "raise" THEN
                    [@ EXCEPT !.pc = "done",
                              !.log = << call, send_error(methodOf(r), r.target,
                                                          Err("handler")) >>]
                ELSE [@ EXCEPT !.pc = "responding", !.log = << call >>]]
           /\ addEndpoint_defaults' =
                [addEndpoint_defaults EXCEPT
                    !.args = IF "args" \in OmittedArguments[path] THEN joined.x ELSE @]
    /\ othersUnchanged

\* The encoding of the return value, the status and the write.
handle_respond(t) ==
    /\ handlers[t].pc = "responding"
    /\ LET r    == handlers[t].request
           path == stripLeadingSlash(r.target.path)
           enc  == encodeResponse(registryOf(r)[path].contentType, r.outcome)
           sent == IF r.command # "GET" THEN
                       << set_response(200, "text/html") >>
                           \o writeResponse(methodOf(r), r.target,
                                  formatHttpResponseAsUTF8(methodOf(r), r.target, r.outcome),
                                  r.connLost)
                   ELSE IF enc.kind = "raise" THEN
                       << send_error("do_GET", r.target, enc.val) >>
                   ELSE << set_response(200, enc.contentType) >>
                            \o writeResponse("do_GET", r.target, enc.response, r.connLost)
       IN  handlers' = [handlers EXCEPT ![t] = [@ EXCEPT !.pc = "done", !.log = @ \o sent]]
    /\ UNCHANGED addEndpoint_defaults
    /\ othersUnchanged

\* The handler has returned, the thread ends.
handle_finish(t) ==
    /\ handlers[t].pc = "done"
    /\ handlers' = [handlers EXCEPT ![t] = IdleHandler]
    /\ UNCHANGED addEndpoint_defaults
    /\ othersUnchanged

ConcurrentNext ==
    \E t \in 1..MaxHandlers :
        \/ handle_receive(t)
        \/ handle_route(t)
        \/ handle_convert(t)
        \/ handle_call(t)
        \/ handle_respond(t)
        \/ handle_finish(t)

ConcurrentSpec == ConcurrentInit /\ [][ConcurrentNext]_vars

\* What the handler does with the request when no other request is around.
Alone(r) ==
    IF r.command = "GET" THEN
        GETEffects(r.target, r.outcome, r.archiveHas, r.diskHas, r.connLost)
    ELSE IF r.command = "POST" THEN
        POSTEffects(r.target, r.headers, r.rfile, r.outcome, r.connLost)
    ELSE DELETEEffects(r.target, r.headers, r.rfile, r.outcome, r.connLost)

\* C25: concurrent requests do not interfere in the dispatcher: under every
\* interleaving of the request threads, the handler arguments, the status
\* and the body of a request are those of the request processed alone, and
\* the dispatcher writes no state that the requests share.
C25_NoInterference ==
    /\ \A t \in 1..MaxHandlers :
        /\ handlers[t].pc = "done" => handlers[t].log = Alone(handlers[t].request)
        /\ handlers[t].pc = "responding" =>
                /\ Alone(handlers[t].request) # <<>>
                /\ handlers[t].log = << Alone(handlers[t].request)[1] >>
    /\ addEndpoint_defaults = EmptyDefaults

\* Two requests to the same endpoint with different payloads: one has been
\* answered 200 while the other was between its conversion and its call.
C25_Witness ==
    /\ handlers[1].pc = "done"
    /\ handlers[2].pc = "calling"
    /\ handlers[1].request.target.path = handlers[2].request.target.path
    /\ handlers[1].request.command = "GET" /\ handlers[2].request.command = "GET"
    /\ handlers[1].conv.kwargs # handlers[2].conv.kwargs
    /\ Len(handlers[1].log) = 3
    /\ handlers[1].log[2].ev = "send_response"
    /\ handlers[1].log = Alone(handlers[1].request)


----------------------------------------------------------------------------
(* SSHController.sendCommand of studiocontroller.py.  A call with onSuccess *)
(* starts a thread around subprocess.check_output and returns; the thread   *)
(* reports through the callbacks.                                           *)

\* What a caller passes: a commandString whose quotes shlex.split can or
\* cannot close, and callbacks that are absent, return, or raise an Exception.
Callbacks == {"none", "returns", "raises"}

SendArguments == [quoted : BOOLEAN, onSuccess : Callbacks, onFailure : Callbacks]

\* What subprocess.check_output(args, timeout=timeout) does: the reply of the
\* device, a non-zero exit status of ssh, the timeout, no ssh executable.
CheckOutputs == {"response", "CalledProcessError", "TimeoutExpired", "FileNotFoundError"}

\* shlex.split(cmds)
shlex_split(args) ==
    IF args.quoted THEN [kind |-> "list", val |-> "args"]
    ELSE Raised("No closing quotation")

SshInit ==
    /\ SshOff
    /\ DispatchOff
    /\ CoerceOff
    /\ ServerOff
    /\ MainOff
    /\ ConcurrentOff
    /\ ConfigOff

sshOthersUnchanged ==
    UNCHANGED <<dispatchVars, coerceVars, serverVars, mainVars, concurrentVars, configVars>>

\* sendCommand(commandString, timeout, onSuccess, onFailure), up to its return
\* or raise.  Without onSuccess it blocks on check_output.
sendCommand(c) ==
    /\ sendPc[c] = "idle"
    /\ \E args \in SendArguments, out \in CheckOutputs :
        /\ sendArgs' = [sendArgs EXCEPT ![c] = args]
        /\ IF shlex_split(args).kind = "raise"
           THEN /\ sendPc' = [sendPc EXCEPT ![c] = "raised"]
                /\ sendReturned' = [sendReturned EXCEPT ![c] = shlex_split(args)]
                /\ UNCHANGED runAsThread
           ELSE IF args.onSuccess = "none"
           THEN /\ sendPc' = [sendPc EXCEPT ![c] = IF out = "response" THEN "returned"
                                                   ELSE "raised"]
                /\ sendReturned' = [sendReturned EXCEPT ![c] =
                                        IF out = "response" THEN PyStr(out) ELSE Raised(out)]
                /\ UNCHANGED runAsThread
           ELSE /\ runAsThread' = [runAsThread EXCEPT ![c] = [NoThread EXCEPT !.pc = "started"]]
                /\ sendPc' = [sendPc EXCEPT ![c] = "returned"]
                /\ sendReturned' = [sendReturned EXCEPT ![c] = PyNone]
    /\ UNCHANGED callbacks
    /\ sshOthersUnchanged

\* runAsThread: response = subprocess.check_output(args, timeout=timeout)
runAsThread_check_output(c) ==
    /\ runAsThread[c].pc = "started"
    /\ \E out \in CheckOutputs :
        runAsThread' = [runAsThread EXCEPT ![c] =
                            [pc |-> IF out = "response" THEN "responded" ELSE "excepting",
                             output |-> out]]
    /\ UNCHANGED <<sendArgs, sendPc, sendReturned, callbacks>>
    /\ sshOthersUnchanged

\* runAsThread: onSuccess(response), inside the try.
runAsThread_onSuccess(c) ==
    /\ runAsThread[c].pc = "responded"
    /\ callbacks' = [callbacks EXCEPT ![c] =
                        Append(@, [name |-> "onSuccess", arg |-> runAsThread[c].output])]
    /\ runAsThread' = [runAsThread EXCEPT ![c].pc =
                            IF sendArgs[c].onSuccess = "raises" THEN "excepting" ELSE "ended"]
    /\ UNCHANGED <<sendArgs, sendPc, sendReturned>>
    /\ sshOthersUnchanged

\* runAsThread: except Exception as e, whatever raised e inside the try.  An
\* exception onFailure raises leaves the thread.
runAsThread_except(c) ==
    /\ runAsThread[c].pc = "excepting"
    /\ LET e == IF runAsThread[c].output = "response" THEN "raised by onSuccess"
                ELSE runAsThread[c].output
       IN IF sendArgs[c].onFailure = "none"
          THEN /\ runAsThread' = [runAsThread EXCEPT ![c].pc = "ended"]
               /\ UNCHANGED callbacks
          ELSE /\ callbacks' = [callbacks EXCEPT ![c] =
                                    Append(@, [name |-> "onFailure", arg |-> e])]
               /\ runAsThread' = [runAsThread EXCEPT ![c].pc =
                                    IF sendArgs[c].onFailure = "raises" THEN "died"
                                    ELSE "ended"]
    /\ UNCHANGED <<sendArgs, sendPc, sendReturned>>
    /\ sshOthersUnchanged

SshNext ==
    \E c \in 1..MaxSends :
        \/ sendCommand(c)
        \/ runAsThread_check_output(c)
        \/ runAsThread_onSuccess(c)
        \/ runAsThread_except(c)

SshSpec == SshInit /\ [][SshNext]_vars

\* The names of the callbacks invoked for call c.
Invoked(c) == { callbacks[c][i].name : i \in DOMAIN callbacks[c] }

ThreadOver(c) == runAsThread[c].pc \in {"ended", "died"}

\* C27: a call of sendCommand with an onSuccess callback returns None without
\* waiting for the command, and exactly one callback outcome follows: onSuccess
\* once with the response if the command succeeds, onFailure (when supplied)
\* once with the exception if it fails or times out; never both for one call.
C27_ExactlyOneCallbackOutcome ==
    \A c \in 1..MaxSends :
        (sendPc[c] # "idle" /\ sendArgs[c].quoted /\ sendArgs[c].onSuccess # "none")
            => /\ sendPc[c] = "returned"
               /\ sendReturned[c] = PyNone
               /\ ~ ({"onSuccess", "onFailure"} \subseteq Invoked(c))
               /\ ThreadOver(c) =>
                    IF runAsThread[c].output = "response"
                    THEN callbacks[c] = << [name |-> "onSuccess", arg |-> "response"] >>
                    ELSE IF sendArgs[c].onFailure # "none"
                    THEN callbacks[c] =
                            << [name |-> "onFailure", arg |-> runAsThread[c].output] >>
                    ELSE callbacks[c] = <<>>

\* The part the code keeps: the caller gets None before the thread has run,
\* and neither callback is invoked twice.
C27_ReturnsNoneAtOnce ==
    \A c \in 1..MaxSends :
        (sendPc[c] # "idle" /\ sendArgs[c].quoted /\ sendArgs[c].onSuccess # "none")
            => /\ sendPc[c] = "returned"
               /\ sendReturned[c] = PyNone
               /\ Len(callbacks[c]) <= 2
               /\ \A i, j \in DOMAIN callbacks[c] :
                    callbacks[c][i].name = callbacks[c][j].name => i = j

\* A command that succeeded, an onSuccess that raised, and onFailure invoked
\* with that exception.
C27_BothInvoked ==
    \E c \in 1..MaxSends :
        /\ ThreadOver(c)
        /\ runAsThread[c].output = "response"
        /\ Invoked(c) = {"onSuccess", "onFailure"}


----------------------------------------------------------------------------
(* ConfigFileManager of studiocontroller.py: save writes a title line, the  *)
(* header text and the JSON text of the config; load reads the file line by *)
(* line, cuts each line at its first '#', and decodes what is left.         *)
(* Text is a sequence of characters; NL is the line feed.                   *)

MaxValueLen == 2
MaxItems == 2

NL == "\n"
DQ == "\""
BS == "\\"

\* The characters of the values of a config: a letter, the comment character,
\* a blank, and the double quote (which json.dumps escapes).
ConfigChars == {"a", "#", " ", DQ}

ConfigKeys == { <<"k">>, <<"j">> }

ConfigValues == SeqsUpTo(ConfigChars, MaxValueLen)

\* Flat configs: key-value items in insertion order, no key twice.
Configs ==
    { c \in SeqsUpTo(ConfigKeys \X ConfigValues, MaxItems) :
        \A m, n \in DOMAIN c : c[m][1] = c[n][1] => m = n }

\* The header texts a ConfigFileManager is built with: none, or one short line.
HeaderTexts == { <<>>, <<"h">> }

\* dict(items): the mapping, a later item of a key replacing an earlier one.
dict(items) ==
    [ key \in { items[n][1] : n \in DOMAIN items } |->
        LET last == CHOOSE n \in DOMAIN items :
                        /\ items[n][1] = key
                        /\ \A m \in DOMAIN items : items[m][1] = key => m <= n
        IN items[last][2] ]

\* json.encoder.py_encode_basestring without its quotes: a double quote and a
\* backslash get a backslash in front.
RECURSIVE escape(_)
escape(v) ==
    IF v = <<>> THEN <<>>
    ELSE (IF Head(v) \in {DQ, BS} THEN <<BS, Head(v)>> ELSE <<Head(v)>>) \o escape(Tail(v))

encode_basestring(v) == <<DQ>> \o escape(v) \o <<DQ>>

\* The item lines of json.dumps(input, indent=True): one blank of indent, the
\* key, a colon and a blank, the value, and a comma after all but the last.
RECURSIVE encode_items(_)
encode_items(items) ==
    IF items = <<>> THEN <<>>
    ELSE <<NL, " ">> \o encode_basestring(items[1][1]) \o <<":", " ">>
            \o encode_basestring(items[1][2])
            \o (IF Len(items) > 1 THEN <<",">> ELSE <<>>)
            \o encode_items(Tail(items))

\* ConfigFileManager.encode: json.dumps(input, indent=True, sort_keys=False)
encode(input) ==
    IF input = <<>> THEN <<"{", "}">>
    ELSE <<"{">> \o encode_items(input) \o <<NL, "}">>

\* The title line of save: a '#', the path and the time.
title == <<"#", " ", "p", " ", "t", " ", NL>>

\* __init__: the wrapped header text, each line behind "# ", and a line feed.
headerText(text) ==
    (IF text = <<>> THEN <<>> ELSE <<"#", " ">> \o text) \o <<NL>>

\* ConfigFileManager.save: what is written to the file.
save(cfg, text) == title \o headerText(text) \o encode(cfg)

\* for line in fh: the lines of the file, each with its line feed.
RECURSIVE readlines(_, _)
readlines(text, line) ==
    IF text = <<>> THEN (IF line = <<>> THEN <<>> ELSE <<line>>)
    ELSE IF Head(text) = NL THEN <<Append(line, NL)>> \o readlines(Tail(text), <<>>)
    ELSE readlines(Tail(text), Append(line, Head(text)))

\* line.partition('#')[0]: the line up to its first '#'.
RECURSIVE partition_hash(_)
partition_hash(line) ==
    IF line = <<>> \/ Head(line) = "#" THEN <<>>
    ELSE <<Head(line)>> \o partition_hash(Tail(line))

Whitespace == {" ", NL}

\* line.rstrip()
RECURSIVE rstrip(_)
rstrip(line) ==
    IF line # <<>> /\ line[Len(line)] \in Whitespace
    THEN rstrip(SubSeq(line, 1, Len(line) - 1))
    ELSE line

\* "".join of the lines that still have content.
RECURSIVE unCommented(_)
unCommented(lines) ==
    IF lines = <<>> THEN <<>>
    ELSE LET line == rstrip(partition_hash(Head(lines)))
         IN line \o unCommented(Tail(lines))

\* json.decoder.WHITESPACE.match(s, idx).end()
RECURSIVE skipWhitespace(_, _)
skipWhitespace(txt, idx) ==
    IF idx <= Len(txt) /\ txt[idx] \in Whitespace THEN skipWhitespace(txt, idx + 1) ELSE idx

JSONDecodeError(msg) == [ok |-> FALSE, val |-> msg, end |-> 0]

\* json.decoder.py_scanstring from the character after the opening quote.
RECURSIVE scanstring(_, _, _)
scanstring(txt, idx, chunks) ==
    IF idx > Len(txt) THEN JSONDecodeError("Unterminated string")
    ELSE IF txt[idx] = DQ THEN [ok |-> TRUE, val |-> chunks, end |-> idx + 1]
    ELSE IF txt[idx] = NL THEN JSONDecodeError("Invalid control character")
    ELSE IF txt[idx] = BS
    THEN IF idx + 1 > Len(txt) THEN JSONDecodeError("Unterminated string")
         ELSE IF txt[idx + 1] \in {DQ, BS}
         THEN scanstring(txt, idx + 2, Append(chunks, txt[idx + 1]))
         ELSE JSONDecodeError("Invalid \\escape")
    ELSE scanstring(txt, idx + 1, Append(chunks, txt[idx]))

\* json.decoder.JSONObject from the opening quote of a key at idx, with the
\* pairs read so far.  Of the values only strings are decoded: the texts save
\* writes have no other.
RECURSIVE JSONObject_pairs(_, _, _)
JSONObject_pairs(txt, idx, pairs) ==
    LET key == scanstring(txt, idx + 1, <<>>)
    IN IF ~ key.ok THEN key
       ELSE LET colon == skipWhitespace(txt, key.end)
            IN IF colon > Len(txt) \/ txt[colon] # ":"
               THEN JSONDecodeError("Expecting ':' delimiter")
               ELSE LET start == skipWhitespace(txt, colon + 1)
                    IN IF start > Len(txt) \/ txt[start] # DQ
                       THEN JSONDecodeError("Expecting value")
                       ELSE LET value == scanstring(txt, start + 1, <<>>)
                            IN IF ~ value.ok THEN value
                               ELSE LET all == Append(pairs, <<key.val, value.val>>)
                                        next == skipWhitespace(txt, value.end)
                                    IN IF next <= Len(txt) /\ txt[next] = "}"
                                       THEN [ok |-> TRUE, val |-> all, end |-> next + 1]
                                       ELSE IF next > Len(txt) \/ txt[next] # ","
                                       THEN JSONDecodeError("Expecting ',' delimiter")
                                       ELSE LET after == skipWhitespace(txt, next + 1)
                                            IN IF after > Len(txt) \/ txt[after] # DQ
                                               THEN JSONDecodeError("Expecting property name")
                                               ELSE JSONObject_pairs(txt, after, all)

\* json.decoder.JSONObject from the character after the opening brace.
JSONObject(txt, idx) ==
    LET first == skipWhitespace(txt, idx)
    IN IF first <= Len(txt) /\ txt[first] = "}"
       THEN [ok |-> TRUE, val |-> <<>>, end |-> first + 1]
       ELSE IF first > Len(txt) \/ txt[first] # DQ
       THEN JSONDecodeError("Expecting property name")
       ELSE JSONObject_pairs(txt, first, <<>>)

\* ConfigFileManager.decode: json.loads(input), a dict or an exception.
decode(input) ==
    LET begin == skipWhitespace(input, 1)
    IN IF begin > Len(input) \/ input[begin] # "{"
       THEN Raised("ConfigFileManager.decode() Expecting value")
       ELSE LET obj == JSONObject(input, begin + 1)
            IN IF ~ obj.ok THEN Raised("ConfigFileManager.decode()")
               ELSE IF skipWhitespace(input, obj.end) <= Len(input)
               THEN Raised("ConfigFileManager.decode() Extra data")
               ELSE PyDict(dict(obj.val))

\* ConfigFileManager.checkAllKeysArePresent: the mandatory keys that are missing.
checkAllKeysArePresent(mandatoryKeysList, configToBeChecked) ==
    mandatoryKeysList \ DOMAIN configToBeChecked

\* ConfigFileManager.load of the object that saved: its mandatory keys are the
\* keys it was built with.
load(file, mandatoryKeysList) ==
    LET unCommentedRawFile == unCommented(readlines(file, <<>>))
        imported == decode(unCommentedRawFile)
    IN IF imported.kind = "raise" THEN Raised("ConfigFileManager.load() decode()")
       ELSE IF checkAllKeysArePresent(mandatoryKeysList, imported.val) # {}
       THEN Raised("ConfigFileManager.load() Missing keys")
       ELSE imported

ConfigInit ==
    /\ self_config \in Configs
    /\ configFile = NoFile
    /\ importedConfig = NotLoaded
    /\ DispatchOff
    /\ CoerceOff
    /\ ServerOff
    /\ MainOff
    /\ ConcurrentOff
    /\ SshOff

configOthersUnchanged ==
    UNCHANGED <<dispatchVars, coerceVars, serverVars, mainVars, concurrentVars, sshVars>>

\* config.save()
ConfigFileManager_save ==
    /\ configFile = NoFile
    /\ \E text \in HeaderTexts : configFile' = [exists |-> TRUE, text |-> save(self_config, text)]
    /\ UNCHANGED <<self_config, importedConfig>>
    /\ configOthersUnchanged

\* config.load() of the file just saved.
ConfigFileManager_loadSaved ==
    /\ configFile # NoFile
    /\ importedConfig = NotLoaded
    /\ importedConfig' = load(configFile.text, { self_config[n][1] : n \in DOMAIN self_config })
    /\ UNCHANGED <<self_config, configFile>>
    /\ configOthersUnchanged

ConfigNext == ConfigFileManager_save \/ ConfigFileManager_loadSaved

ConfigSpec == ConfigInit /\ [][ConfigNext]_vars

Loaded == importedConfig # NotLoaded

\* Whether a '#' occurs in a key or a value of the config.
HasHash(cfg) ==
    \E n \in DOMAIN cfg : \E part \in 1..2 : \E m \in DOMAIN cfg[n][part] :
        cfg[n][part][m] = "#"

\* C29: for every flat key-value config, save followed by load of the same
\* file returns a mapping equal to the one saved.
C29_SaveThenLoadRoundTrip ==
    Loaded => importedConfig = PyDict(dict(self_config))

\* What the code keeps: a config without '#' comes back equal, escapes and
\* blanks included.
C29_RoundTripWithoutHash ==
    (Loaded /\ ~ HasHash(self_config)) => importedConfig = PyDict(dict(self_config))

\* A config with a '#' in a value has been saved and its load has raised.
C29_HashBreaksLoad ==
    /\ Loaded
    /\ HasHash(self_config)
    /\ importedConfig.kind = "raise"

\* A config with a quote and a blank in a value has made the round trip.
C29_EscapedRoundTrip ==
    /\ Loaded
    /\ \E n \in DOMAIN self_config : self_config[n][2] = <<DQ, " ">>
    /\ importedConfig = PyDict(dict(self_config))

----------------------------------------------------------------------------
(* C30: what mapURLQueryToFnArgs leaves of its argument.                   *)

\* C30: mapURLQueryToFnArgs works on a copy: after it has returned or raised,
\* the mapping the caller passed in, each of its value lists and their
\* elements are unchanged.
C30_CallerMappingUnchanged ==
    Called => callerLists = RawLists(query_components)

\* What the shallow copy does keep: the caller's mapping has its keys, and
\* every key still its list, of the same length.
C30_CallerKeysAndLengthsUnchanged ==
    Called =>
        /\ DOMAIN callerLists = DOMAIN query_components
        /\ \A key \in DOMAIN callerLists :
                Len(callerLists[key]) = Len(query_components[key])

\* A call has returned and the caller's list under a holds the int 1 where it
\* held the string "1".
C30_CallerListCoerced ==
    /\ Returned
    /\ "a" \in DOMAIN query_components
    /\ query_components["a"] = << <<"1">> >>
    /\ callerLists["a"] = << PyInt(1) >>

====
